---- MODULE Spec2Model ----
(***************************************************************************)
(* The funds-movement saga of serverless-martian-bank: the Transfer        *)
(* Initiator (send_money.py, zelle.py), the Loan Originator                *)
(* (process_loan.py), the Event Codec (events/*.py) and the Balance        *)
(* Updater (update_balance.py), over the three collections of the "bank"   *)
(* database and the event bus.                                             *)
(*                                                                         *)
(* Every handler invocation is a process.  One step of a process is one    *)
(* call to the store or to the bus together with the local computation     *)
(* that follows it up to the next call.  A store call either takes effect  *)
(* and returns, or raises and has no effect; put_events either accepts     *)
(* the entry and returns, or raises and accepts nothing.                   *)
(*                                                                         *)
(* Money is counted in halves (0.5): 1000.00 is 2000, 100.50 is 201.       *)
(* Every such value is a binary floating-point number on which float(),    *)
(* str(), Decimal() and $inc are exact.                                    *)
(***************************************************************************)
EXTENDS Integers, Sequences, FiniteSets, TLC

\* Number of producer invocations (send_money, zelle, process_loan).
MaxInvocations == 2
\* Number of times the bus hands one accepted event to the Balance Updater.
MaxDeliveries == 1
\* The largest significand of the model's doubles (2^53 in the program's).
FloatMantissa == 1024

Procs == 1..MaxInvocations
Deliveries == 1..MaxDeliveries

VARIABLES
    accounts,         \* db["accounts"]: documents in insertion order
    transactions,     \* db["transactions"]: document k has _id k
    loans,            \* db["loans"]: document k has _id k
    bus,              \* the entries put_events has accepted, in order
    handler,          \* handler[i]: the handler invocation i runs
    pc,               \* pc[i]: the call invocation i is about to make
    request,          \* request[i]: the parsed body (request_data) and event fields
    locals,           \* locals[i]: sender_account, receiver_account, inserted_id, e
    response,         \* response[i]: the handler's return value
    upd,              \* upd[k][d]: the Balance Updater invocation for delivery d of bus[k]
    origin,           \* origin[k]: the invocation whose put_events call accepted bus[k]
    calls             \* calls[i]: the store and bus calls invocation i has made

vars == <<accounts, transactions, loans, bus, handler, pc, request, locals,
          response, upd, origin, calls>>

----------------------------------------------------------------------------
(* Values *)

Absent == "<absent>"
StoreErrorText == "store error"
EventBridgeErrorText == "EventBridge error"
KeyErrorText == "'name'"
Outcomes == {"ok", "raise"}

AccountNumbers == {"IBAN1", "IBAN2", "IBAN9"}
Emails == {"ann@mars", "bob@mars", "eve@mars"}
\* -100.50, 0 and 100.50
Amounts == {-201, 0, 201}
Reasons == {"Test transfer"}

\* The accounts collection before the first invocation: one account with
\* 100.50 and one with 50.00; no account IBAN9, no owner eve@mars.
InitialAccounts ==
    << [account_number |-> "IBAN1", email |-> "ann@mars", balance |-> 201],
       [account_number |-> "IBAN2", email |-> "bob@mars", balance |-> 100] >>

TransferRequests ==
    [sender_account_number : AccountNumbers, receiver_account_number : AccountNumbers,
     amount : Amounts, reason : Reasons]

ZelleRequests ==
    [sender_email : Emails, receiver_email : Emails, amount : Amounts, reason : Reasons]

\* event.get("accountDetails"): the set is empty when the key is missing.
AccountDetails ==
    {{}} \cup {{[account_type |-> "Savings", account_number |-> a]} : a \in {"IBAN1", "IBAN9"}}

\* The event of a loan request: the body names an account that exists, it
\* carries the other fields the Loan document is built from or lacks them,
\* and the event carries the account the previous step resolved or none.
LoanRequests ==
    [loan_amount : {-201, 0, 201}, account_number : {"IBAN1"}, other_fields : BOOLEAN,
     accountDetails : AccountDetails]

NoLocals == [sender_account |-> {}, receiver_account |-> {}, inserted_id |-> 0, e |-> Absent]
NoRequest == [amount |-> 0]
NoResponse == [statusCode |-> 0]
IdleUpdate == [pc |-> "idle", event |-> [none |-> TRUE], calls |-> <<>>,
               response |-> NoResponse]

----------------------------------------------------------------------------
(* The store: pymongo calls on a collection *)

\* The one element of a set of one element.
The(s) == CHOOSE x \in s : TRUE

\* The documents a filter {field: value} matches: a document without the
\* field does not match.
Matches(coll, field, value) ==
    {k \in 1..Len(coll) : field \in DOMAIN coll[k] /\ coll[k][field] = value}

First(ks) == CHOOSE k \in ks : \A j \in ks : k <= j

\* collection.find_one({}): a lookup that forgets its filter.
FindOneUnfiltered(coll, field, value) ==
    IF coll = <<>> THEN {} ELSE {coll[1]}

\* collection.find_one({field: value}): the first matching document, or None
\* (the empty set).
FindOne(coll, field, value) ==
    IF Matches(coll, field, value) = {} THEN {}
    ELSE {coll[First(Matches(coll, field, value))]}

\* An insert that is made twice.
InsertOneTwice(coll, doc) == Append(Append(coll, doc), doc)

\* collection.insert_one(doc): the document gets the next _id.
InsertOne(coll, doc) == Append(coll, doc)
InsertedId(coll) == Len(coll) + 1

\* {"$set": {"balance": delta}} in place of "$inc": the balance is overwritten.
IncAsSet(doc, delta) == [doc EXCEPT !.balance = delta]

\* The doubles of the model: a balance is a double, and the sum of two doubles
\* is the double nearest to it.  A double holds a significand of 53 bits; the
\* model's holds every whole number of halves up to FloatMantissa, every
\* second one up to twice that, every fourth up to four times that, and so on.
Abs(v) == IF v < 0 THEN 0 - v ELSE v

\* The distance between the doubles around v.
RECURSIVE Ulp(_, _)
Ulp(v, u) == IF Abs(v) <= FloatMantissa * u THEN u ELSE Ulp(v, 2 * u)

\* Round to nearest, ties to the even significand.
RoundToDouble(v) ==
    LET u == Ulp(v, 1)
        q == v \div u
        r == v % u
    IN  IF 2 * r < u THEN q * u
        ELSE IF 2 * r > u THEN (q + 1) * u
        ELSE IF q % 2 = 0 THEN q * u ELSE (q + 1) * u

\* x + y in double arithmetic.
FloatAdd(x, y) == RoundToDouble(x + y)

\* {"$inc": {"balance": delta}} on one document.
Inc(doc, delta) == [doc EXCEPT !.balance = FloatAdd(doc.balance, delta)]

\* An update whose filter also asks that the balance stays at or above zero:
\* {"account_number": a, "balance": {"$gte": -delta}}.
UpdateOneIncFloored(coll, a, delta) ==
    LET ks == {k \in Matches(coll, "account_number", a) : coll[k].balance + delta >= 0} IN
    IF ks = {} THEN [coll |-> coll, modified_count |-> 0]
    ELSE LET k == First(ks)
             new == Inc(coll[k], delta) IN
         [coll |-> [coll EXCEPT ![k] = new],
          modified_count |-> IF new = coll[k] THEN 0 ELSE 1]

\* collection.update_one({"account_number": a}, {"$inc": {"balance": delta}}):
\* the first matching document is incremented in place; modified_count is the
\* number of documents the update changed.
UpdateOneInc(coll, a, delta) ==
    LET ks == Matches(coll, "account_number", a) IN
    IF ks = {} THEN [coll |-> coll, modified_count |-> 0]
    ELSE LET k == First(ks)
             new == Inc(coll[k], delta) IN
         [coll |-> [coll EXCEPT ![k] = new],
          modified_count |-> IF new = coll[k] THEN 0 ELSE 1]

\* An update_one that matches no document: the collection stays as it is.
SetStatusUnmatched(coll, id, status) == coll

\* collection.update_one({"_id": id}, {"$set": {"status": status}})
SetStatus(coll, id, status) ==
    [k \in 1..Len(coll) |-> IF k = id THEN [coll[k] EXCEPT !.status = status] ELSE coll[k]]

\* An update_many whose filter matches every document: all are marked failed.
SetFailedEverywhere(coll, id, text) ==
    [k \in 1..Len(coll) |-> [coll[k] EXCEPT !.status = "failed", !.error = text]]

\* The update that records a failure without the "error" field.
SetFailedWithoutError(coll, id, text) ==
    [k \in 1..Len(coll) |-> IF k = id THEN [coll[k] EXCEPT !.status = "failed"] ELSE coll[k]]

\* collection.update_one({"_id": id}, {"$set": {"status": "failed", "error": text}})
SetFailed(coll, id, text) ==
    [k \in 1..Len(coll) |->
        IF k = id THEN [coll[k] EXCEPT !.status = "failed", !.error = text] ELSE coll[k]]

----------------------------------------------------------------------------
(* The Event Codec: lib/layers/python/events *)

TransactionSOURCE == "martian-bank.transactions"
TransactionTYPE == "transaction.completed"
LoanSOURCE == "martian-bank.loans"
LoanTYPE == "loan.granted"

\* float(x) of a JSON number
Float(x) == x
\* A Decimal is the double nearest to it and what it has beyond that double:
\* residue 0 when the Decimal is the string of a double, 1 when it has digits
\* a double does not hold.
\* Decimal(str(x)) of a float x
DecimalOfStr(x) == [decimal |-> x, residue |-> 0]
\* float(d) of a Decimal d: the nearest double
FloatOfDecimal(d) == d.decimal
\* json.dumps(obj): a string, not an object
JsonDumps(obj) == [json |-> obj]
\* json.loads(s)
JsonLoads(s) == s.json

TransactionCompletedEvent(from_account, to_account, amount, reason) ==
    [from_account |-> from_account, to_account |-> to_account,
     amount |-> amount, reason |-> reason]

TransactionToEventbridge(self) ==
    [Source |-> TransactionSOURCE,
     DetailType |-> TransactionTYPE,
     Detail |-> JsonDumps([fromAccount |-> self.from_account,
                           toAccount |-> self.to_account,
                           amount |-> FloatOfDecimal(self.amount),
                           reason |-> self.reason])]

TransactionFromEventbridge(event) ==
    LET detail == JsonLoads(event.Detail) IN
    TransactionCompletedEvent(detail.fromAccount, detail.toAccount,
                              DecimalOfStr(detail.amount), detail.reason)

LoanGrantedEvent(account_number, amount) ==
    [account_number |-> account_number, amount |-> amount]

LoanToEventbridge(self) ==
    [Source |-> LoanSOURCE,
     DetailType |-> LoanTYPE,
     Detail |-> JsonDumps([accountNumber |-> self.account_number,
                           amount |-> FloatOfDecimal(self.amount)])]

LoanFromEventbridge(event) ==
    LET detail == JsonLoads(event.Detail) IN
    LoanGrantedEvent(detail.accountNumber, DecimalOfStr(detail.amount))

\* The event a bus rule hands to the Balance Updater for an accepted entry:
\* the keys the Balance Updater's tests build its input with.
BusDelivery(entry) ==
    [source |-> entry.Source, detail_type |-> entry.DetailType, Detail |-> entry.Detail]

----------------------------------------------------------------------------
(* Initial state *)

Init ==
    /\ accounts = InitialAccounts
    /\ transactions = <<>>
    /\ loans = <<>>
    /\ bus = <<>>
    /\ handler = [i \in Procs |-> "none"]
    /\ pc = [i \in Procs |-> "idle"]
    /\ request = [i \in Procs |-> NoRequest]
    /\ locals = [i \in Procs |-> NoLocals]
    /\ response = [i \in Procs |-> NoResponse]
    /\ upd = [k \in Procs |-> [d \in Deliveries |-> IdleUpdate]]
    /\ origin = <<>>
    /\ calls = [i \in Procs |-> <<>>]

----------------------------------------------------------------------------
(* Results of the producers *)

ErrorResponse(message, status) ==
    [statusCode |-> status, body |-> [approved |-> FALSE, message |-> message]]

\* An outer except that answers with a fixed text in place of str(e).
InternalErrorFixedText(text) ==
    [statusCode |-> 500, body |-> [error |-> "Internal Server Error"]]

\* The outer "except Exception as e" of a producer.
InternalError(text) == [statusCode |-> 500, body |-> [error |-> text]]

TransferSuccess(id) ==
    [statusCode |-> 200,
     body |-> [approved |-> TRUE, message |-> "Transaction is Successful",
               transactionId |-> id]]

LoanSuccess(id) ==
    [statusCode |-> 200,
     body |-> [approved |-> TRUE, message |-> "Loan Approved", loanId |-> id]]

\* Invocation i returns r.
Return(i, r) ==
    /\ pc' = [pc EXCEPT ![i] = "done"]
    /\ response' = [response EXCEPT ![i] = r]

\* Invocation i goes on to its next call.
Goto(i, next) ==
    /\ pc' = [pc EXCEPT ![i] = next]
    /\ UNCHANGED response

\* Invocation i has made the call op, which returned ("ok") or raised ("raise").
Called(i, op, outcome) ==
    calls' = [calls EXCEPT ![i] = Append(@, [op |-> op, outcome |-> outcome])]

\* An invocation starts in the first slot that has run nothing yet.
CanStart(i) ==
    /\ pc[i] = "idle"
    /\ \A j \in Procs : j < i => pc[j] # "idle"

----------------------------------------------------------------------------
(* Transfer Initiator by account number: send_money.py *)

\* The check written "if amount < 0": a zero amount passes.
InvalidAmountNegative(amount) == amount < 0

\* Line 24 (zelle.py 24): "if amount <= 0".
InvalidAmount(amount) == amount <= 0

\* The check written "<=": a balance equal to the amount is rejected.
InsufficientBalanceOrEqual(balance, amount) == balance <= amount

\* Line 56 (zelle.py 54): "if sender_account["balance"] < amount".
InsufficientBalance(balance, amount) == balance < amount

\* Lines 17-34: parse the body, check the amount, connect.
SendMoneyStart(i, r, outcome) ==
    /\ CanStart(i)
    /\ handler' = [handler EXCEPT ![i] = "send_money"]
    /\ request' = [request EXCEPT ![i] = r]
    /\ IF InvalidAmount(Float(r.amount))
       THEN /\ outcome = "ok"
            /\ Return(i, [statusCode |-> 400,
                          body |-> [approved |-> FALSE, message |-> "Invalid amount"]])
            /\ UNCHANGED calls
       ELSE /\ Called(i, "get_mongodb_client", outcome)
            /\ IF outcome = "ok"
               THEN Goto(i, "find_sender")
               ELSE Return(i, InternalError(StoreErrorText))
    /\ UNCHANGED <<accounts, transactions, loans, bus, locals, upd, origin>>

\* Lines 36-44: look the sender up.
SendMoneyFindSender(i, outcome) ==
    /\ handler[i] = "send_money"
    /\ pc[i] = "find_sender"
    /\ Called(i, "find_one", outcome)
    /\ IF outcome = "raise"
       THEN /\ Return(i, InternalError(StoreErrorText))
            /\ UNCHANGED locals
       ELSE LET sender_account ==
                    FindOne(accounts, "account_number", request[i].sender_account_number) IN
            /\ locals' = [locals EXCEPT ![i].sender_account = sender_account]
            /\ IF sender_account = {}
               THEN Return(i, [statusCode |-> 404,
                               body |-> [approved |-> FALSE,
                                         message |-> "Sender Account Not Found"]])
               ELSE Goto(i, "find_receiver")
    /\ UNCHANGED <<accounts, transactions, loans, bus, handler, request, upd, origin>>

\* Lines 46-60: look the receiver up, then check the balance read at line 37.
SendMoneyFindReceiver(i, outcome) ==
    /\ handler[i] = "send_money"
    /\ pc[i] = "find_receiver"
    /\ Called(i, "find_one", outcome)
    /\ IF outcome = "raise"
       THEN /\ Return(i, InternalError(StoreErrorText))
            /\ UNCHANGED locals
       ELSE LET receiver_account ==
                    FindOne(accounts, "account_number", request[i].receiver_account_number) IN
            /\ locals' = [locals EXCEPT ![i].receiver_account = receiver_account]
            /\ IF receiver_account = {}
               THEN Return(i, [statusCode |-> 404,
                               body |-> [approved |-> FALSE,
                                         message |-> "Receiver Account Not Found"]])
               ELSE IF InsufficientBalance(The(locals[i].sender_account).balance,
                                           Float(request[i].amount))
               THEN Return(i, [statusCode |-> 400,
                               body |-> [approved |-> FALSE,
                                         message |-> "Insufficient Balance"]])
               ELSE Goto(i, "insert_one")
    /\ UNCHANGED <<accounts, transactions, loans, bus, handler, request, upd, origin>>

\* request_data.get("reason", default)
ReasonOf(i) ==
    IF request[i].reason # Absent THEN request[i].reason
    ELSE IF handler[i] = "zelle" THEN "Zelle Transfer" ELSE "Transfer"

\* Lines 62-70 (zelle.py 57-65): the document of the transfer.
TransactionDocument(i) ==
    [sender |-> The(locals[i].sender_account).account_number,
     receiver |-> The(locals[i].receiver_account).account_number,
     amount |-> Float(request[i].amount),
     reason |-> ReasonOf(i),
     status |-> "pending",
     error |-> Absent]

\* An insert whose error is swallowed: the handler goes on to publish.
TransferInsertUnchecked(i, outcome) ==
    /\ handler[i] \in {"send_money", "zelle"}
    /\ pc[i] = "insert_one"
    /\ Called(i, "insert_one", outcome)
    /\ IF outcome = "raise"
       THEN UNCHANGED <<transactions, locals>>
       ELSE /\ transactions' = InsertOne(transactions, TransactionDocument(i))
            /\ locals' = [locals EXCEPT ![i].inserted_id = InsertedId(transactions)]
    /\ Goto(i, "put_events")
    /\ UNCHANGED <<accounts, loans, bus, handler, request, upd, origin>>

\* Line 71 (zelle.py 66): insert the pending Transaction.
TransferInsert(i, outcome) ==
    /\ handler[i] \in {"send_money", "zelle"}
    /\ pc[i] = "insert_one"
    /\ Called(i, "insert_one", outcome)
    /\ IF outcome = "raise"
       THEN /\ Return(i, InternalError(StoreErrorText))
            /\ UNCHANGED <<transactions, locals>>
       ELSE /\ transactions' = InsertOne(transactions, TransactionDocument(i))
            /\ locals' = [locals EXCEPT ![i].inserted_id = InsertedId(transactions)]
            /\ Goto(i, "put_events")
    /\ UNCHANGED <<accounts, loans, bus, handler, request, upd, origin>>

\* Lines 75-80 (zelle.py 71-76): the event of the transfer.
TransferEvent(i) ==
    TransactionCompletedEvent(The(locals[i].sender_account).account_number,
                              The(locals[i].receiver_account).account_number,
                              DecimalOfStr(Float(request[i].amount)),
                              ReasonOf(i))

\* A publish that is tried a second time when the first try fails.
TransferPutEventsRetried(i, outcome) ==
    /\ handler[i] \in {"send_money", "zelle"}
    /\ pc[i] = "put_events"
    /\ Called(i, "put_events", outcome)
    /\ IF outcome = "ok"
       THEN /\ bus' = Append(bus, TransactionToEventbridge(TransferEvent(i)))
            /\ origin' = Append(origin, i)
            /\ Goto(i, "update_completed")
            /\ UNCHANGED locals
       ELSE /\ locals' = [locals EXCEPT ![i].e = EventBridgeErrorText]
            /\ Goto(i, IF locals[i].e = Absent THEN "put_events" ELSE "update_failed")
            /\ UNCHANGED <<bus, origin>>
    /\ UNCHANGED <<accounts, transactions, loans, handler, request, upd>>

\* Lines 74-88 and 96 (zelle.py 69-84 and 92): publish the event; a failure is
\* caught by the inner except.
TransferPutEvents(i, outcome) ==
    /\ handler[i] \in {"send_money", "zelle"}
    /\ pc[i] = "put_events"
    /\ Called(i, "put_events", outcome)
    /\ IF outcome = "ok"
       THEN /\ bus' = Append(bus, TransactionToEventbridge(TransferEvent(i)))
            /\ origin' = Append(origin, i)
            /\ Goto(i, "update_completed")
            /\ UNCHANGED locals
       ELSE /\ locals' = [locals EXCEPT ![i].e = EventBridgeErrorText]
            /\ Goto(i, "update_failed")
            /\ UNCHANGED <<bus, origin>>
    /\ UNCHANGED <<accounts, transactions, loans, handler, request, upd>>

\* A handler that takes the amount from the sender itself when it records
\* the success.
TransferUpdateCompletedDebiting(i, outcome) ==
    /\ handler[i] \in {"send_money", "zelle"}
    /\ pc[i] = "update_completed"
    /\ Called(i, "update_one", outcome)
    /\ IF outcome = "ok"
       THEN /\ transactions' = SetStatus(transactions, locals[i].inserted_id, "completed")
            /\ accounts' = UpdateOneInc(accounts,
                                        transactions[locals[i].inserted_id].sender,
                                        0 - transactions[locals[i].inserted_id].amount).coll
            /\ Return(i, TransferSuccess(locals[i].inserted_id))
            /\ UNCHANGED locals
       ELSE /\ locals' = [locals EXCEPT ![i].e = StoreErrorText]
            /\ Goto(i, "update_failed")
            /\ UNCHANGED <<transactions, accounts>>
    /\ UNCHANGED <<loans, bus, handler, request, upd, origin>>

\* Lines 90-94, 96 and 104-111 (zelle.py 86-90, 92 and 100-108): record the
\* success and return it; a failure of this update is caught by the same
\* inner except as a failure of the publish.
TransferUpdateCompleted(i, outcome) ==
    /\ handler[i] \in {"send_money", "zelle"}
    /\ pc[i] = "update_completed"
    /\ Called(i, "update_one", outcome)
    /\ IF outcome = "ok"
       THEN /\ transactions' = SetStatus(transactions, locals[i].inserted_id, "completed")
            /\ Return(i, TransferSuccess(locals[i].inserted_id))
            /\ UNCHANGED locals
       ELSE /\ locals' = [locals EXCEPT ![i].e = StoreErrorText]
            /\ Goto(i, "update_failed")
            /\ UNCHANGED transactions
    /\ UNCHANGED <<accounts, loans, bus, handler, request, upd, origin>>

\* Lines 96-102 and 113-118 (zelle.py 92-98 and 110-116): record the failure
\* and re-raise to the outer except; a failure of this update goes to the
\* outer except itself.
TransferUpdateFailed(i, outcome) ==
    /\ handler[i] \in {"send_money", "zelle"}
    /\ pc[i] = "update_failed"
    /\ Called(i, "update_one", outcome)
    /\ IF outcome = "ok"
       THEN /\ transactions' = SetFailed(transactions, locals[i].inserted_id, locals[i].e)
            /\ Return(i, InternalError(locals[i].e))
            /\ UNCHANGED locals
       ELSE /\ locals' = [locals EXCEPT ![i].e = StoreErrorText]
            /\ Return(i, InternalError(StoreErrorText))
            /\ UNCHANGED transactions
    /\ UNCHANGED <<accounts, loans, bus, handler, request, upd, origin>>

----------------------------------------------------------------------------
(* Transfer Initiator by email: zelle.py *)

\* Lines 17-31: parse the body, check the amount, connect.
ZelleStart(i, r, outcome) ==
    /\ CanStart(i)
    /\ handler' = [handler EXCEPT ![i] = "zelle"]
    /\ request' = [request EXCEPT ![i] = r]
    /\ IF InvalidAmount(Float(r.amount))
       THEN /\ outcome = "ok"
            /\ Return(i, ErrorResponse("Invalid amount", 400))
            /\ UNCHANGED calls
       ELSE /\ Called(i, "get_mongodb_client", outcome)
            /\ IF outcome = "ok"
               THEN Goto(i, "find_sender")
               ELSE Return(i, InternalError(StoreErrorText))
    /\ UNCHANGED <<accounts, transactions, loans, bus, locals, upd, origin>>

\* A lookup of the sender under the email of the receiver.
ZelleFindSenderByReceiverEmail(i, outcome) ==
    /\ handler[i] = "zelle"
    /\ pc[i] = "find_sender"
    /\ Called(i, "find_one", outcome)
    /\ IF outcome = "raise"
       THEN /\ Return(i, InternalError(StoreErrorText))
            /\ UNCHANGED locals
       ELSE LET sender_account == FindOne(accounts, "email", request[i].receiver_email) IN
            /\ locals' = [locals EXCEPT ![i].sender_account = sender_account]
            /\ IF sender_account = {}
               THEN Return(i, ErrorResponse("Sender Account Not Found", 404))
               ELSE Goto(i, "find_receiver")
    /\ UNCHANGED <<accounts, transactions, loans, bus, handler, request, upd, origin>>

\* Lines 33-38: look the sender up by email.
ZelleFindSender(i, outcome) ==
    /\ handler[i] = "zelle"
    /\ pc[i] = "find_sender"
    /\ Called(i, "find_one", outcome)
    /\ IF outcome = "raise"
       THEN /\ Return(i, InternalError(StoreErrorText))
            /\ UNCHANGED locals
       ELSE LET sender_account == FindOne(accounts, "email", request[i].sender_email) IN
            /\ locals' = [locals EXCEPT ![i].sender_account = sender_account]
            /\ IF sender_account = {}
               THEN Return(i, ErrorResponse("Sender Account Not Found", 404))
               ELSE Goto(i, "find_receiver")
    /\ UNCHANGED <<accounts, transactions, loans, bus, handler, request, upd, origin>>

\* Lines 40-55: look the receiver up by email, take the account numbers of the
\* two documents, then check the balance read at line 34.
ZelleFindReceiver(i, outcome) ==
    /\ handler[i] = "zelle"
    /\ pc[i] = "find_receiver"
    /\ Called(i, "find_one", outcome)
    /\ IF outcome = "raise"
       THEN /\ Return(i, InternalError(StoreErrorText))
            /\ UNCHANGED locals
       ELSE LET receiver_account == FindOne(accounts, "email", request[i].receiver_email) IN
            /\ locals' = [locals EXCEPT ![i].receiver_account = receiver_account]
            /\ IF receiver_account = {}
               THEN Return(i, ErrorResponse("Receiver Account Not Found", 404))
               ELSE IF \/ The(locals[i].sender_account).account_number = Absent
                       \/ The(receiver_account).account_number = Absent
               THEN Return(i, ErrorResponse("Account number missing", 500))
               ELSE IF InsufficientBalance(The(locals[i].sender_account).balance,
                                           Float(request[i].amount))
               THEN Return(i, ErrorResponse("Insufficient Balance", 400))
               ELSE Goto(i, "insert_one")
    /\ UNCHANGED <<accounts, transactions, loans, bus, handler, request, upd, origin>>

----------------------------------------------------------------------------
(* Loan Originator: process_loan.py *)

\* A handler that looks for the account before it checks the amount.
ProcessLoanStartAccountFirst(i, r, outcome) ==
    /\ CanStart(i)
    /\ handler' = [handler EXCEPT ![i] = "process_loan"]
    /\ request' = [request EXCEPT ![i] = r]
    /\ IF r.accountDetails = {}
       THEN /\ outcome = "ok"
            /\ Return(i, ErrorResponse("Account details not found", 404))
            /\ UNCHANGED calls
       ELSE IF Float(r.loan_amount) <= 0
       THEN /\ outcome = "ok"
            /\ Return(i, ErrorResponse("Invalid loan amount", 400))
            /\ UNCHANGED calls
       ELSE /\ Called(i, "get_mongodb_client", outcome)
            /\ IF outcome = "raise"
               THEN Return(i, InternalError(StoreErrorText))
               ELSE IF ~r.other_fields
               THEN Return(i, InternalError(KeyErrorText))
               ELSE Goto(i, "insert_loan")
    /\ UNCHANGED <<accounts, transactions, loans, bus, locals, upd, origin>>

\* A handler that reads the fields of the document before it looks for the
\* account.
ProcessLoanStartFieldsFirst(i, r, outcome) ==
    /\ CanStart(i)
    /\ handler' = [handler EXCEPT ![i] = "process_loan"]
    /\ request' = [request EXCEPT ![i] = r]
    /\ IF Float(r.loan_amount) <= 0
       THEN /\ outcome = "ok"
            /\ Return(i, ErrorResponse("Invalid loan amount", 400))
            /\ UNCHANGED calls
       ELSE IF ~r.other_fields
       THEN /\ outcome = "ok"
            /\ Return(i, InternalError(KeyErrorText))
            /\ UNCHANGED calls
       ELSE IF r.accountDetails = {}
       THEN /\ outcome = "ok"
            /\ Return(i, ErrorResponse("Account details not found", 404))
            /\ UNCHANGED calls
       ELSE /\ Called(i, "get_mongodb_client", outcome)
            /\ IF outcome = "raise"
               THEN Return(i, InternalError(StoreErrorText))
               ELSE Goto(i, "insert_loan")
    /\ UNCHANGED <<accounts, transactions, loans, bus, locals, upd, origin>>

\* Lines 17-69: parse the body, check the amount, take the account the
\* previous step resolved, connect, build the document; request_data["name"]
\* raises a KeyError into the outer except when the body lacks the field.
ProcessLoanStart(i, r, outcome) ==
    /\ CanStart(i)
    /\ handler' = [handler EXCEPT ![i] = "process_loan"]
    /\ request' = [request EXCEPT ![i] = r]
    /\ IF Float(r.loan_amount) <= 0
       THEN /\ outcome = "ok"
            /\ Return(i, ErrorResponse("Invalid loan amount", 400))
            /\ UNCHANGED calls
       ELSE IF r.accountDetails = {}
       THEN /\ outcome = "ok"
            /\ Return(i, ErrorResponse("Account details not found", 404))
            /\ UNCHANGED calls
       ELSE /\ Called(i, "get_mongodb_client", outcome)
            /\ IF outcome = "raise"
               THEN Return(i, InternalError(StoreErrorText))
               ELSE IF ~r.other_fields
               THEN Return(i, InternalError(KeyErrorText))
               ELSE Goto(i, "insert_loan")
    /\ UNCHANGED <<accounts, transactions, loans, bus, locals, upd, origin>>

\* Lines 55-69: the document of the loan.
LoanDocument(i) ==
    [account_type |-> The(request[i].accountDetails).account_type,
     account_number |-> The(request[i].accountDetails).account_number,
     loan_amount |-> Float(request[i].loan_amount),
     status |-> "approved",
     error |-> Absent]

\* Lines 71-72: insert the Loan.
ProcessLoanInsert(i, outcome) ==
    /\ handler[i] = "process_loan"
    /\ pc[i] = "insert_loan"
    /\ Called(i, "insert_one", outcome)
    /\ IF outcome = "raise"
       THEN /\ Return(i, InternalError(StoreErrorText))
            /\ UNCHANGED <<loans, locals>>
       ELSE /\ loans' = InsertOne(loans, LoanDocument(i))
            /\ locals' = [locals EXCEPT ![i].inserted_id = InsertedId(loans)]
            /\ Goto(i, "put_events_loan")
    /\ UNCHANGED <<accounts, transactions, bus, handler, request, upd, origin>>

\* Lines 74-78: the event of the loan.
LoanEvent(i) ==
    LoanGrantedEvent(The(request[i].accountDetails).account_number,
                     DecimalOfStr(Float(request[i].loan_amount)))

\* Lines 80-114: publish the event and return; a failure goes to the outer
\* except.
ProcessLoanPutEvents(i, outcome) ==
    /\ handler[i] = "process_loan"
    /\ pc[i] = "put_events_loan"
    /\ Called(i, "put_events", outcome)
    /\ IF outcome = "ok"
       THEN /\ bus' = Append(bus, LoanToEventbridge(LoanEvent(i)))
            /\ origin' = Append(origin, i)
            /\ Return(i, LoanSuccess(locals[i].inserted_id))
            /\ UNCHANGED locals
       ELSE /\ locals' = [locals EXCEPT ![i].e = EventBridgeErrorText]
            /\ Return(i, InternalError(EventBridgeErrorText))
            /\ UNCHANGED <<bus, origin>>
    /\ UNCHANGED <<accounts, transactions, loans, handler, request, upd>>

----------------------------------------------------------------------------
(* Balance Updater: update_balance.py *)

UpdateSucceeded == [statusCode |-> 200]
UpdateFailed == [statusCode |-> 500]

BalanceOf(coll, a) == The(FindOne(coll, "account_number", a)).balance

\* The record of one update_one call of the Balance Updater: the account and
\* the increment it asked for, what the call reported, and by how much the
\* balance of that account changed.
UpdateCall(a, inc, outcome, result) ==
    [op |-> "update_one", account_number |-> a, inc |-> inc, outcome |-> outcome,
     modified_count |-> IF outcome = "ok" THEN result.modified_count ELSE 0,
     delta |-> IF outcome = "ok" /\ FindOne(accounts, "account_number", a) # {}
               THEN BalanceOf(result.coll, a) - BalanceOf(accounts, a) ELSE 0]

\* An update_one call whose modified_count is not looked at.
UpdateBalanceCallUnchecked(u, outcome, a, inc, next) ==
    LET result == UpdateOneInc(accounts, a, inc)
        called == [u EXCEPT !.calls = Append(@, UpdateCall(a, inc, outcome, result))]
    IN
    IF outcome = "raise"
    THEN [u |-> [called EXCEPT !.pc = "done", !.response = UpdateFailed],
          accounts |-> accounts]
    ELSE [u |-> IF next = "done"
                THEN [called EXCEPT !.pc = "done", !.response = UpdateSucceeded]
                ELSE [called EXCEPT !.pc = next],
          accounts |-> result.coll]

\* One update_one call of Balance Updater invocation u and the check of its
\* modified_count: when the call changed a document the invocation goes on
\* to `next`, and returns 200 when `next` is the end of the handler.  The
\* result is the invocation and the accounts collection after the call.
UpdateBalanceCall(u, outcome, a, inc, next) ==
    LET result == UpdateOneInc(accounts, a, inc)
        called == [u EXCEPT !.calls = Append(@, UpdateCall(a, inc, outcome, result))]
    IN
    IF outcome = "raise"
    THEN [u |-> [called EXCEPT !.pc = "done", !.response = UpdateFailed],
          accounts |-> accounts]
    ELSE [u |-> IF result.modified_count = 0
                THEN [called EXCEPT !.pc = "done", !.response = UpdateFailed]
                ELSE IF next = "done"
                THEN [called EXCEPT !.pc = "done", !.response = UpdateSucceeded]
                ELSE [called EXCEPT !.pc = next],
          accounts |-> result.coll]

\* Lines 26-33: decrement the sender.
UpdateSender(u, outcome) ==
    LET transaction == TransactionFromEventbridge(u.event) IN
    UpdateBalanceCall(u, outcome, transaction.from_account,
                      0 - FloatOfDecimal(transaction.amount), "update_receiver")

\* The compensation the TODO of line 42 thinks of: when the receiver's update
\* changes no document the sender gets the amount back.
UpdateReceiverCompensated(u, outcome) ==
    LET transaction == TransactionFromEventbridge(u.event)
        credited == UpdateBalanceCall(u, outcome, transaction.to_account,
                                      FloatOfDecimal(transaction.amount), "done")
    IN
    IF outcome = "ok" /\ credited.u.response = UpdateFailed
    THEN [credited EXCEPT !.accounts =
             UpdateOneInc(accounts, transaction.from_account,
                          FloatOfDecimal(transaction.amount)).coll]
    ELSE credited

\* Lines 35-43 and 58-63: increment the receiver.
UpdateReceiver(u, outcome) ==
    LET transaction == TransactionFromEventbridge(u.event) IN
    UpdateBalanceCall(u, outcome, transaction.to_account,
                      FloatOfDecimal(transaction.amount), "done")

\* A loan that is taken from the balance: the sign of the sender's update.
UpdateLoanNegated(u, outcome) ==
    LET loan == LoanFromEventbridge(u.event) IN
    UpdateBalanceCall(u, outcome, loan.account_number,
                      0 - FloatOfDecimal(loan.amount), "done")

\* Lines 45-63: increment the account of the loan.
UpdateLoan(u, outcome) ==
    LET loan == LoanFromEventbridge(u.event) IN
    UpdateBalanceCall(u, outcome, loan.account_number,
                      FloatOfDecimal(loan.amount), "done")

\* A handler whose dispatch ends in "else: raise ValueError": an event of an
\* unknown source is an error.
UpdateBalanceHandlerStrict(event, connect, outcome) ==
    LET started == [IdleUpdate EXCEPT
                       !.event = event,
                       !.calls = <<[op |-> "get_mongodb_client", outcome |-> connect]>>]
        raised == [u |-> [started EXCEPT !.pc = "done", !.response = UpdateFailed],
                   accounts |-> accounts]
    IN
    IF connect = "raise" THEN raised
    ELSE IF "source" \notin DOMAIN event THEN raised
    ELSE IF event.source = TransactionSOURCE
    THEN IF "Detail" \notin DOMAIN event THEN raised ELSE UpdateSender(started, outcome)
    ELSE IF event.source = LoanSOURCE
    THEN IF "Detail" \notin DOMAIN event THEN raised ELSE UpdateLoan(started, outcome)
    ELSE raised

\* A handler whose except logs the error and answers 200.
UpdateBalanceHandlerSwallowing(event, connect, outcome) ==
    LET started == [IdleUpdate EXCEPT
                       !.event = event,
                       !.calls = <<[op |-> "get_mongodb_client", outcome |-> connect]>>]
        raised == [u |-> [started EXCEPT !.pc = "done", !.response = UpdateSucceeded],
                   accounts |-> accounts]
    IN
    IF connect = "raise" THEN raised
    ELSE IF "source" \notin DOMAIN event THEN raised
    ELSE IF event.source = TransactionSOURCE
    THEN IF "Detail" \notin DOMAIN event THEN raised ELSE UpdateSender(started, outcome)
    ELSE IF event.source = LoanSOURCE
    THEN IF "Detail" \notin DOMAIN event THEN raised ELSE UpdateLoan(started, outcome)
    ELSE [u |-> [started EXCEPT !.pc = "done", !.response = UpdateSucceeded],
          accounts |-> accounts]

\* Lines 15-33, 45-72: the handler up to and including its first update_one
\* call.  It connects, dispatches on event['source'] and decodes the event; a
\* missing key raises into the except.
UpdateBalanceHandler(event, connect, outcome) ==
    LET started == [IdleUpdate EXCEPT
                       !.event = event,
                       !.calls = <<[op |-> "get_mongodb_client", outcome |-> connect]>>]
        raised == [u |-> [started EXCEPT !.pc = "done", !.response = UpdateFailed],
                   accounts |-> accounts]
    IN
    IF connect = "raise" THEN raised
    ELSE IF "source" \notin DOMAIN event THEN raised
    ELSE IF event.source = TransactionSOURCE
    THEN IF "Detail" \notin DOMAIN event THEN raised ELSE UpdateSender(started, outcome)
    ELSE IF event.source = LoanSOURCE
    THEN IF "Detail" \notin DOMAIN event THEN raised ELSE UpdateLoan(started, outcome)
    ELSE [u |-> [started EXCEPT !.pc = "done", !.response = UpdateSucceeded],
          accounts |-> accounts]

\* A Balance Updater that remembers the events it has processed and answers
\* 200 to one it has seen, without an update.
UpdateBalanceStartOnce(k, d, connect, outcome) ==
    /\ k \in 1..Len(bus)
    /\ upd[k][d].pc = "idle"
    /\ \A c \in Deliveries : c < d => upd[k][c].pc # "idle"
    /\ connect = "raise" => outcome = "ok"
    /\ LET after == UpdateBalanceHandler(BusDelivery(bus[k]), connect, outcome)
           seen == \E j \in 1..Len(bus), c \in Deliveries :
                      /\ <<j, c>> # <<k, d>>
                      /\ bus[j] = bus[k]
                      /\ upd[j][c].response = UpdateSucceeded
       IN
       IF seen /\ connect = "ok" /\ outcome = "ok"
       THEN /\ upd' = [upd EXCEPT ![k][d] =
                          [after.u EXCEPT !.pc = "done", !.response = UpdateSucceeded,
                                          !.calls = <<after.u.calls[1]>>]]
            /\ UNCHANGED accounts
       ELSE /\ upd' = [upd EXCEPT ![k][d] = after.u]
            /\ accounts' = after.accounts
    /\ UNCHANGED <<transactions, loans, bus, handler, pc, request, locals, response,
                   origin, calls>>

\* A Balance Updater that looks the producer's Transaction up and leaves the
\* balances alone when it is marked failed.
UpdateBalanceStartIfNotFailed(k, d, connect, outcome) ==
    /\ k \in 1..Len(bus)
    /\ upd[k][d].pc = "idle"
    /\ \A c \in Deliveries : c < d => upd[k][c].pc # "idle"
    /\ connect = "raise" => outcome = "ok"
    /\ LET after == UpdateBalanceHandler(BusDelivery(bus[k]), connect, outcome)
           failed == /\ origin[k] \in Procs
                     /\ handler[origin[k]] \in {"send_money", "zelle"}
                     /\ transactions[locals[origin[k]].inserted_id].status = "failed"
       IN
       IF failed /\ connect = "ok" /\ outcome = "ok"
       THEN /\ upd' = [upd EXCEPT ![k][d] =
                          [after.u EXCEPT !.pc = "done", !.response = UpdateSucceeded,
                                          !.calls = <<after.u.calls[1]>>]]
            /\ UNCHANGED accounts
       ELSE /\ upd' = [upd EXCEPT ![k][d] = after.u]
            /\ accounts' = after.accounts
    /\ UNCHANGED <<transactions, loans, bus, handler, pc, request, locals, response,
                   origin, calls>>

\* The bus hands delivery d of the accepted entry bus[k] to the Balance
\* Updater, which runs up to and including its first update_one call.
UpdateBalanceStart(k, d, connect, outcome) ==
    /\ k \in 1..Len(bus)
    /\ upd[k][d].pc = "idle"
    /\ \A c \in Deliveries : c < d => upd[k][c].pc # "idle"
    /\ connect = "raise" => outcome = "ok"
    /\ LET after == UpdateBalanceHandler(BusDelivery(bus[k]), connect, outcome) IN
       /\ upd' = [upd EXCEPT ![k][d] = after.u]
       /\ accounts' = after.accounts
    /\ UNCHANGED <<transactions, loans, bus, handler, pc, request, locals, response,
                   origin, calls>>

\* The second update_one call of the transaction branch.
UpdateBalanceReceiver(k, d, outcome) ==
    /\ upd[k][d].pc = "update_receiver"
    /\ LET after == UpdateReceiver(upd[k][d], outcome) IN
       /\ upd' = [upd EXCEPT ![k][d] = after.u]
       /\ accounts' = after.accounts
    /\ UNCHANGED <<transactions, loans, bus, handler, pc, request, locals, response,
                   origin, calls>>

----------------------------------------------------------------------------
(* Specification *)

Next ==
    \/ \E i \in Procs, r \in TransferRequests, o \in Outcomes : SendMoneyStart(i, r, o)
    \/ \E i \in Procs, o \in Outcomes : SendMoneyFindSender(i, o)
    \/ \E i \in Procs, o \in Outcomes : SendMoneyFindReceiver(i, o)
    \/ \E i \in Procs, r \in ZelleRequests, o \in Outcomes : ZelleStart(i, r, o)
    \/ \E i \in Procs, o \in Outcomes : ZelleFindSender(i, o)
    \/ \E i \in Procs, o \in Outcomes : ZelleFindReceiver(i, o)
    \/ \E i \in Procs, o \in Outcomes : TransferInsert(i, o)
    \/ \E i \in Procs, o \in Outcomes : TransferPutEvents(i, o)
    \/ \E i \in Procs, o \in Outcomes : TransferUpdateCompleted(i, o)
    \/ \E i \in Procs, o \in Outcomes : TransferUpdateFailed(i, o)
    \/ \E i \in Procs, r \in LoanRequests, o \in Outcomes : ProcessLoanStart(i, r, o)
    \/ \E i \in Procs, o \in Outcomes : ProcessLoanInsert(i, o)
    \/ \E i \in Procs, o \in Outcomes : ProcessLoanPutEvents(i, o)
    \/ \E k \in Procs, d \in Deliveries, c \in Outcomes, o \in Outcomes :
          UpdateBalanceStart(k, d, c, o)
    \/ \E k \in Procs, d \in Deliveries, o \in Outcomes : UpdateBalanceReceiver(k, d, o)

Spec == Init /\ [][Next]_vars

----------------------------------------------------------------------------
(* Account opening: create_account.py *)

\* The numbers random.randint can return at line 16.
GeneratedNumbers == {"IBAN1", "IBAN2"}
AccountTypes == {"Savings", "Checking"}

\* The bodies of the requests: the owner's email and the type of the account.
CreateAccountRequests == [email_id : {"ann@mars", "bob@mars"}, account_type : AccountTypes]

\* Lines 45-56: the document of a new account, with 100.00.
AccountDocument(r, n) ==
    [email_id |-> r.email_id, account_type |-> r.account_type,
     balance |-> 200, currency |-> "USD", account_number |-> n]

AccountExists == [statusCode |-> 400,
                  body |-> [success |-> FALSE, message |-> "Account already exists"]]
AccountCreated(n) == [statusCode |-> 201, body |-> [success |-> TRUE, account_number |-> n]]
AccountError(text) == [statusCode |-> 500, body |-> [success |-> FALSE, error |-> text]]

\* collection.count_documents({"email_id": e, "account_type": t})
CountDocuments(coll, e, t) ==
    Cardinality(Matches(coll, "email_id", e) \cap Matches(coll, "account_type", t))

\* Lines 18-27: parse the body, connect.
CreateAccountStart(i, r, outcome) ==
    /\ CanStart(i)
    /\ handler' = [handler EXCEPT ![i] = "create_account"]
    /\ request' = [request EXCEPT ![i] = r]
    /\ Called(i, "get_mongodb_client", outcome)
    /\ IF outcome = "ok"
       THEN Goto(i, "count_documents")
       ELSE Return(i, AccountError(StoreErrorText))
    /\ UNCHANGED <<accounts, transactions, loans, bus, locals, upd, origin>>

\* Lines 29-42: count the accounts of the pair; one or more is a refusal.
CreateAccountCount(i, outcome) ==
    /\ handler[i] = "create_account"
    /\ pc[i] = "count_documents"
    /\ Called(i, "count_documents", outcome)
    /\ IF outcome = "raise"
       THEN Return(i, AccountError(StoreErrorText))
       ELSE IF CountDocuments(accounts, request[i].email_id, request[i].account_type) > 0
       THEN Return(i, AccountExists)
       ELSE Goto(i, "insert_account")
    /\ UNCHANGED <<accounts, transactions, loans, bus, handler, request, locals, upd, origin>>

\* Lines 44-67: build the document with a generated number n and insert it.
CreateAccountInsert(i, n, outcome) ==
    /\ handler[i] = "create_account"
    /\ pc[i] = "insert_account"
    /\ Called(i, "insert_one", outcome)
    /\ IF outcome = "ok"
       THEN /\ accounts' = InsertOne(accounts, AccountDocument(request[i], n))
            /\ Return(i, AccountCreated(n))
       ELSE /\ Return(i, AccountError(StoreErrorText))
            /\ UNCHANGED accounts
    /\ UNCHANGED <<transactions, loans, bus, handler, request, locals, upd, origin>>

\* Requests by email for 50.00, which the balance of a new account covers.
OpeningZelleRequests ==
    [sender_email : {"ann@mars", "bob@mars"}, receiver_email : {"ann@mars", "bob@mars"},
     amount : {100}, reason : Reasons]

\* The store holds one account that create_account made.
InitOpening ==
    /\ accounts = <<AccountDocument([email_id |-> "bob@mars", account_type |-> "Savings"],
                                    "IBAN2")>>
    /\ transactions = <<>>
    /\ loans = <<>>
    /\ bus = <<>>
    /\ handler = [i \in Procs |-> "none"]
    /\ pc = [i \in Procs |-> "idle"]
    /\ request = [i \in Procs |-> NoRequest]
    /\ locals = [i \in Procs |-> NoLocals]
    /\ response = [i \in Procs |-> NoResponse]
    /\ upd = [k \in Procs |-> [d \in Deliveries |-> IdleUpdate]]
    /\ origin = <<>>
    /\ calls = [i \in Procs |-> <<>>]

\* Account opening and the lookup of zelle.py on the accounts it makes.  On
\* these accounts the lookup of the sender finds no document (the filter is
\* on "email", the documents have "email_id"), so zelle.py never goes past it.
NextOpening ==
    \/ \E i \in Procs, r \in CreateAccountRequests, o \in Outcomes : CreateAccountStart(i, r, o)
    \/ \E i \in Procs, o \in Outcomes : CreateAccountCount(i, o)
    \/ \E i \in Procs, n \in GeneratedNumbers, o \in Outcomes : CreateAccountInsert(i, n, o)
    \/ \E i \in Procs, r \in OpeningZelleRequests, o \in Outcomes : ZelleStart(i, r, o)
    \/ \E i \in Procs, o \in Outcomes : ZelleFindSender(i, o)

SpecOpening == InitOpening /\ [][NextOpening]_vars

----------------------------------------------------------------------------
(* Transfers of small amounts on a large balance *)

\* An account with 515.00 and one with 50.00.
LargeAccounts ==
    << [account_number |-> "IBAN1", email |-> "ann@mars", balance |-> 1030],
       [account_number |-> "IBAN2", email |-> "bob@mars", balance |-> 100] >>

\* Requests for 1.50 between the two accounts, or from one to itself.
SmallTransferRequests ==
    [sender_account_number : {"IBAN1", "IBAN2"}, receiver_account_number : {"IBAN1", "IBAN2"},
     amount : {3}, reason : Reasons]

InitRounding ==
    /\ accounts = LargeAccounts
    /\ transactions = <<>>
    /\ loans = <<>>
    /\ bus = <<>>
    /\ handler = [i \in Procs |-> "none"]
    /\ pc = [i \in Procs |-> "idle"]
    /\ request = [i \in Procs |-> NoRequest]
    /\ locals = [i \in Procs |-> NoLocals]
    /\ response = [i \in Procs |-> NoResponse]
    /\ upd = [k \in Procs |-> [d \in Deliveries |-> IdleUpdate]]
    /\ origin = <<>>
    /\ calls = [i \in Procs |-> <<>>]

NextRounding ==
    \/ \E i \in Procs, r \in SmallTransferRequests, o \in Outcomes : SendMoneyStart(i, r, o)
    \/ \E i \in Procs, o \in Outcomes : SendMoneyFindSender(i, o)
    \/ \E i \in Procs, o \in Outcomes : SendMoneyFindReceiver(i, o)
    \/ \E i \in Procs, o \in Outcomes : TransferInsert(i, o)
    \/ \E i \in Procs, o \in Outcomes : TransferPutEvents(i, o)
    \/ \E i \in Procs, o \in Outcomes : TransferUpdateCompleted(i, o)
    \/ \E i \in Procs, o \in Outcomes : TransferUpdateFailed(i, o)
    \/ \E k \in Procs, d \in Deliveries, c \in Outcomes, o \in Outcomes :
          UpdateBalanceStart(k, d, c, o)
    \/ \E k \in Procs, d \in Deliveries, o \in Outcomes : UpdateBalanceReceiver(k, d, o)

SpecRounding == InitRounding /\ [][NextRounding]_vars

----------------------------------------------------------------------------
(* The Balance Updater on the events of any publisher *)

\* The amounts of the events handed to the Balance Updater: 50.00 and 100.50.
EventAmounts == {100, 201}

\* The amounts an event can be built with (amount: Decimal): those that are
\* the string of a double and those that are not.
Decimals == [decimal : EventAmounts, residue : {0, 1}]

\* The entries a publisher can put on the bus: a transfer between any two
\* account numbers, a loan to any account number, and an entry of a source
\* the Balance Updater does not know, whose detail is json.dumps({}).
ArrivingEvents ==
    {TransactionToEventbridge(TransactionCompletedEvent(f, t, a, "test transaction")) :
         f \in AccountNumbers, t \in AccountNumbers, a \in Decimals}
    \cup {LoanToEventbridge(LoanGrantedEvent(n, a)) : n \in AccountNumbers, a \in Decimals}
    \cup {[Source |-> "unknown.source", DetailType |-> "UnknownEvent",
           Detail |-> JsonDumps([empty |-> TRUE])]}

\* The bus accepts an entry of a publisher that is no invocation of this
\* model; an entry equal to an earlier one is the same event once more.
Arrive(e) ==
    /\ Len(bus) < MaxInvocations
    /\ bus' = Append(bus, e)
    /\ origin' = Append(origin, 0)
    /\ UNCHANGED <<accounts, transactions, loans, handler, pc, request, locals,
                   response, upd, calls>>

NextConsumer ==
    \/ \E e \in ArrivingEvents : Arrive(e)
    \/ \E k \in Procs, d \in Deliveries, c \in Outcomes, o \in Outcomes :
          UpdateBalanceStart(k, d, c, o)
    \/ \E k \in Procs, d \in Deliveries, o \in Outcomes : UpdateBalanceReceiver(k, d, o)

SpecConsumer == Init /\ [][NextConsumer]_vars

----------------------------------------------------------------------------
(* Vocabulary of the properties *)

Transfer(i) == handler[i] \in {"send_money", "zelle"}
Loan(i) == handler[i] = "process_loan"
Done(i) == pc[i] = "done"

CallsOf(i, op, outcome) ==
    {n \in 1..Len(calls[i]) : calls[i][n].op = op /\ calls[i][n].outcome = outcome}

\* A call of invocation i to the store raised.
StoreRaised(i) ==
    \E n \in 1..Len(calls[i]) : calls[i][n].op # "put_events" /\ calls[i][n].outcome = "raise"

\* The store raised before invocation i had inserted its document.
StoreRaisedBeforeInsert(i) ==
    \E n \in 1..Len(calls[i]) :
        /\ calls[i][n].op \in {"get_mongodb_client", "find_one", "insert_one"}
        /\ calls[i][n].outcome = "raise"

Published(i) == CallsOf(i, "put_events", "ok") # {}
PublishFailed(i) == CallsOf(i, "put_events", "raise") # {}
Inserted(i) == CallsOf(i, "insert_one", "ok") # {}

\* The entries of the bus that invocation i published.
EventsOf(i) == {k \in 1..Len(bus) : origin[k] = i}

\* The accounts of the store that a transfer request names: none when the
\* account is absent.
Stored(field, value) ==
    {accounts[k] : k \in {n \in 1..Len(accounts) : accounts[n][field] = value}}

SenderOf(i) ==
    IF handler[i] = "send_money"
    THEN Stored("account_number", request[i].sender_account_number)
    ELSE Stored("email", request[i].sender_email)

ReceiverOf(i) ==
    IF handler[i] = "send_money"
    THEN Stored("account_number", request[i].receiver_account_number)
    ELSE Stored("email", request[i].receiver_email)

\* The balance of the sender that invocation i read at lookup time.
BalanceRead(i) == The(locals[i].sender_account).balance

\* The Transaction document invocation i inserted.
Tx(i) == transactions[locals[i].inserted_id]

\* The update_one calls of a Balance Updater invocation.
UpdateCalls(u) == SelectSeq(u.calls, LAMBDA c : c.op = "update_one")
UpdateRaised(u) == \E n \in 1..Len(u.calls) : u.calls[n].outcome = "raise"

----------------------------------------------------------------------------
(* The saga of a transfer *)

\* The request of invocation i names two accounts of the store, its amount is
\* positive and the balance read for the sender covers it.
ValidTransfer(i) ==
    /\ Float(request[i].amount) > 0
    /\ SenderOf(i) # {}
    /\ ReceiverOf(i) # {}
    /\ locals[i].sender_account # {}
    /\ BalanceRead(i) >= Float(request[i].amount)

\* A Balance Updater invocation for an event of invocation i that returned
\* without a store error made exactly two updates: the sender's balance went
\* down by the amount of the request, then the receiver's went up by it.
SettledExactly(i, u) ==
    LET updates == UpdateCalls(u) IN
    /\ u.response = UpdateSucceeded
    /\ Len(updates) = 2
    /\ updates[1].account_number = The(SenderOf(i)).account_number
    /\ updates[1].delta = 0 - Float(request[i].amount)
    /\ updates[2].account_number = The(ReceiverOf(i)).account_number
    /\ updates[2].delta = Float(request[i].amount)

RECURSIVE SumDeltas(_, _)
SumDeltas(updates, a) ==
    IF updates = <<>> THEN 0
    ELSE (IF Head(updates).account_number = a THEN Head(updates).delta ELSE 0)
         + SumDeltas(Tail(updates), a)

RECURSIVE SumOver(_, _)
SumOver(pairs, a) ==
    IF pairs = {} THEN 0
    ELSE LET p == CHOOSE q \in pairs : TRUE IN
         SumDeltas(UpdateCalls(upd[p[1]][p[2]]), a) + SumOver(pairs \ {p}, a)

BalancesExplained ==
    \A a \in AccountNumbers :
        FindOne(accounts, "account_number", a) # {}
        => BalanceOf(accounts, a)
             = BalanceOf(InitialAccounts, a) + SumOver(Procs \X Deliveries, a)

\* C2: when the publish of a transfer fails, the invocation, once it has
\* returned with its store calls having returned, leaves its Transaction
\* failed with the error text attached; the bus never holds an event of that
\* invocation, so no Balance Updater invocation runs on its behalf, and every
\* balance change there is belongs to an update of the Balance Updater.
C2_FailedPublishChangesNoBalance ==
    /\ BalancesExplained
    /\ \A i \in Procs :
          (Transfer(i) /\ PublishFailed(i))
          => /\ Inserted(i)
             /\ EventsOf(i) = {}
             /\ Tx(i).status # "completed"
             /\ (Done(i) /\ ~StoreRaised(i))
                => /\ Tx(i).status = "failed"
                   /\ Tx(i).error = EventBridgeErrorText

\* A transfer whose publish failed has returned; its Transaction is failed.
C2_Witness ==
    \E i \in Procs :
        /\ Transfer(i) /\ Done(i) /\ PublishFailed(i) /\ ~StoreRaised(i)
        /\ Tx(i).status = "failed"
        /\ \A a \in {1, 2} : accounts[a] = InitialAccounts[a]

\* C3: in both variants, once the pending Transaction is inserted and the
\* later store calls return: a successful publish ends with that same
\* Transaction completed and the success result; a failed publish ends with
\* that same Transaction failed, the error text attached, and an error
\* result that carries the text.
C3_StatusFollowsPublish ==
    \A i \in Procs :
        (Transfer(i) /\ Done(i) /\ Inserted(i) /\ ~StoreRaised(i))
        => /\ Tx(i).amount = Float(request[i].amount)
           /\ Tx(i).sender = The(SenderOf(i)).account_number
           /\ Tx(i).receiver = The(ReceiverOf(i)).account_number
           /\ Published(i)
              => /\ Tx(i).status = "completed"
                 /\ Tx(i).error = Absent
                 /\ response[i].statusCode = 200
                 /\ response[i].body.approved = TRUE
                 /\ response[i].body.transactionId = locals[i].inserted_id
           /\ PublishFailed(i)
              => /\ Tx(i).status = "failed"
                 /\ Tx(i).error = EventBridgeErrorText
                 /\ response[i].statusCode = 500
                 /\ response[i].body.error = EventBridgeErrorText
           /\ Published(i) \/ PublishFailed(i)

\* The email variant has returned after a failed publish and the
\* account-number variant after a successful one.
C3_Witness ==
    \E i, j \in Procs :
        /\ handler[i] = "zelle" /\ Done(i) /\ PublishFailed(i) /\ ~StoreRaised(i)
        /\ Tx(i).status = "failed"
        /\ handler[j] = "send_money" /\ Done(j) /\ Published(j) /\ ~StoreRaised(j)
        /\ Tx(j).status = "completed"

----------------------------------------------------------------------------
(* Order of the store write and the publish *)

Producer(i) == Transfer(i) \/ Loan(i)

\* The document that invocation i inserted is in its collection and says
\* what the bus entry k says.
DocumentOfEvent(i, k) ==
    LET id == locals[i].inserted_id
        detail == JsonLoads(bus[k].Detail)
    IN
    IF Transfer(i)
    THEN /\ id \in 1..Len(transactions)
         /\ transactions[id].sender = detail.fromAccount
         /\ transactions[id].receiver = detail.toAccount
         /\ transactions[id].amount = detail.amount
    ELSE /\ id \in 1..Len(loans)
         /\ loans[id].account_number = detail.accountNumber
         /\ loans[id].loan_amount = detail.amount

\* C4: in every producer invocation each publish call comes after an insert
\* that returned, an insert that raised is followed by no publish call, and
\* every event on the bus has its document in the store.
C4_PublishOnlyAfterInsert ==
    \A i \in Procs :
        Producer(i)
        => /\ \A n \in 1..Len(calls[i]) :
                 calls[i][n].op = "put_events"
                 => \E m \in 1..(n - 1) :
                       calls[i][m] = [op |-> "insert_one", outcome |-> "ok"]
           /\ CallsOf(i, "insert_one", "raise") # {}
              => /\ CallsOf(i, "put_events", "ok") = {}
                 /\ CallsOf(i, "put_events", "raise") = {}
                 /\ EventsOf(i) = {}
           /\ \A k \in EventsOf(i) : DocumentOfEvent(i, k)

\* A transfer whose insert raised has returned, and a loan has been
\* published after its insert.
C4_Witness ==
    \E i, j \in Procs :
        /\ Transfer(i) /\ Done(i) /\ CallsOf(i, "insert_one", "raise") # {}
        /\ Loan(j) /\ Inserted(j) /\ EventsOf(j) # {}

----------------------------------------------------------------------------
(* Validation of a transfer *)

\* C5: a transfer request whose amount is zero or negative has returned
\* status 400 with approved false as soon as it has started; it has called
\* neither the store nor the bus, holds no document and no event, and no
\* Transaction in the store has such an amount.
C5_InvalidAmountRejected ==
    /\ \A k \in 1..Len(transactions) : transactions[k].amount > 0
    /\ \A i \in Procs :
          (Transfer(i) /\ Float(request[i].amount) <= 0)
          => /\ Done(i)
             /\ response[i].statusCode = 400
             /\ response[i].body.approved = FALSE
             /\ calls[i] = <<>>
             /\ locals[i].inserted_id = 0
             /\ EventsOf(i) = {}

\* Both variants have rejected an amount, one of zero and one negative.
C5_Witness ==
    \E i, j \in Procs :
        /\ handler[i] = "zelle" /\ Float(request[i].amount) = 0
        /\ response[i].statusCode = 400
        /\ handler[j] = "send_money" /\ Float(request[j].amount) < 0
        /\ response[j].statusCode = 400
        /\ transactions = <<>>

NoWrite(i) ==
    /\ locals[i].inserted_id = 0
    /\ CallsOf(i, "insert_one", "ok") = {}
    /\ CallsOf(i, "insert_one", "raise") = {}
    /\ CallsOf(i, "put_events", "ok") = {}
    /\ CallsOf(i, "put_events", "raise") = {}
    /\ EventsOf(i) = {}

\* The claim as the specification words it: a sender balance read below the
\* amount always ends in the insufficient-funds failure.
C6_AsWorded ==
    \A i \in Procs :
        (/\ Transfer(i) /\ Done(i) /\ ~StoreRaised(i)
         /\ locals[i].sender_account # {}
         /\ BalanceRead(i) < Float(request[i].amount))
        => /\ NoWrite(i)
           /\ response[i] = ErrorResponse("Insufficient Balance", 400)

\* C6: when the receiver account is found too, a sender balance read below
\* the amount ends in the insufficient-funds failure with no Transaction and
\* no event, and a balance equal to the amount is accepted: the Transaction
\* is inserted.  (When the receiver is absent the result is the receiver's
\* not-found failure, whatever the balance.)
C6_InsufficientBalanceRejected ==
    \A i \in Procs :
        (/\ Transfer(i) /\ Done(i) /\ ~StoreRaised(i)
         /\ locals[i].sender_account # {}
         /\ locals[i].receiver_account # {})
        => /\ BalanceRead(i) < Float(request[i].amount)
              => /\ NoWrite(i)
                 /\ response[i] = ErrorResponse("Insufficient Balance", 400)
           /\ BalanceRead(i) = Float(request[i].amount)
              => /\ Inserted(i)
                 /\ response[i] # ErrorResponse("Insufficient Balance", 400)

\* One transfer has been refused for a balance below its amount and another
\* accepted with a balance equal to its amount.
C6_Witness ==
    \E i, j \in Procs :
        /\ Transfer(i) /\ Done(i) /\ locals[i].receiver_account # {}
        /\ BalanceRead(i) < Float(request[i].amount)
        /\ response[i] = ErrorResponse("Insufficient Balance", 400)
        /\ Transfer(j) /\ Done(j) /\ Inserted(j)
        /\ BalanceRead(j) = Float(request[j].amount)

\* C7: a transfer of a positive amount whose store calls return and whose
\* sender is absent returns the sender's not-found result, also when the
\* receiver is absent too; one whose sender is stored and whose receiver is
\* absent returns the receiver's not-found result; in both cases nothing has
\* been inserted or published.
C7_NotFoundDistinguished ==
    \A i \in Procs :
        (Transfer(i) /\ Done(i) /\ ~StoreRaised(i) /\ Float(request[i].amount) > 0)
        => /\ SenderOf(i) = {}
              => /\ response[i] = ErrorResponse("Sender Account Not Found", 404)
                 /\ NoWrite(i)
           /\ (SenderOf(i) # {} /\ ReceiverOf(i) = {})
              => /\ response[i] = ErrorResponse("Receiver Account Not Found", 404)
                 /\ NoWrite(i)

\* One transfer named two absent accounts and another only an absent receiver.
C7_Witness ==
    \E i, j \in Procs :
        /\ Transfer(i) /\ Done(i) /\ Float(request[i].amount) > 0
        /\ SenderOf(i) = {} /\ ReceiverOf(i) = {}
        /\ response[i].statusCode = 404
        /\ Transfer(j) /\ Done(j) /\ Float(request[j].amount) > 0
        /\ SenderOf(j) # {} /\ ReceiverOf(j) = {}
        /\ response[j].statusCode = 404

\* C8: the Transactions of the store are one for each invocation whose insert
\* returned; an invocation inserts at most once; and an invocation that has
\* returned, with the store calls up to the insert having returned, has
\* inserted exactly when its request passed validation, whatever the publish
\* did.
C8_OneTransactionPerValidTransfer ==
    /\ Len(transactions) = Cardinality({i \in Procs : Transfer(i) /\ Inserted(i)})
    /\ \A i \in Procs :
          Transfer(i)
          => /\ Cardinality(CallsOf(i, "insert_one", "ok")) <= 1
             /\ (Done(i) /\ ~StoreRaisedBeforeInsert(i))
                => (Inserted(i) <=> ValidTransfer(i))

\* A transfer that passed validation has returned after a failed publish and
\* another one failed validation: the store holds one Transaction.
C8_Witness ==
    \E i, j \in Procs :
        /\ Transfer(i) /\ Done(i) /\ ValidTransfer(i) /\ PublishFailed(i)
        /\ Transfer(j) /\ Done(j) /\ ~ValidTransfer(j) /\ ~StoreRaised(j)
        /\ Len(transactions) = 1

----------------------------------------------------------------------------
(* Terminal states and retries *)

\* C9: a step of any invocation leaves every Transaction whose status is
\* completed or failed as it is, whether the store call of the step returned
\* or raised; a call that raises has changed nothing in the store.
C9_TerminalStatusFinal ==
    [][\A k \in 1..Len(transactions) :
          transactions[k].status \in {"completed", "failed"}
          => /\ k <= Len(transactions')
             /\ transactions'[k] = transactions[k]]_vars

\* One Transaction is completed; the update that was to record another one as
\* completed raised, and that one is failed.
C9_Witness ==
    \E i, j \in Procs :
        /\ Transfer(i) /\ Done(i) /\ Inserted(i) /\ Tx(i).status = "completed"
        /\ Transfer(j) /\ Done(j) /\ Inserted(j) /\ Published(j)
        /\ CallsOf(j, "update_one", "raise") # {}
        /\ Tx(j).status = "failed"

\* C10: a producer invocation has called the publish at most once, whether
\* the call returned or raised; the bus holds one event for each publish call
\* that returned and none of an invocation whose publish raised.
C10_PublishAtMostOnce ==
    /\ Len(bus) = Cardinality({i \in Procs : Producer(i) /\ Published(i)})
    /\ \A i \in Procs :
          Producer(i)
          => /\ Cardinality(CallsOf(i, "put_events", "ok")
                            \cup CallsOf(i, "put_events", "raise")) <= 1
             /\ Cardinality(EventsOf(i)) <= 1
             /\ PublishFailed(i) => EventsOf(i) = {}

\* A transfer and a loan have both returned after a publish that failed.
C10_Witness ==
    \E i, j \in Procs :
        /\ Transfer(i) /\ Done(i) /\ PublishFailed(i)
        /\ Loan(j) /\ Done(j) /\ PublishFailed(j)
        /\ bus = <<>>

----------------------------------------------------------------------------
(* The Balance Updater *)

\* The Balance Updater invocations that have started: delivery d of entry k.
Updates == {p \in Procs \X Deliveries : p[1] <= Len(bus) /\ upd[p[1]][p[2]].pc # "idle"}

DetailOf(k) == JsonLoads(bus[k].Detail)

\* C11: an invocation on a TransactionCompleted event makes at most two
\* updates, the first on the sender by -amount and the second, made only when
\* the first changed a document, on the receiver by +amount; when the
\* sender's update changes no document the invocation has returned 500 with
\* that single update made and no balance changed.
C11_SenderFirstAndFatal ==
    /\ BalancesExplained
    /\ \A p \in Updates :
          bus[p[1]].Source = TransactionSOURCE
          => LET u == upd[p[1]][p[2]]
                 updates == UpdateCalls(u)
                 detail == DetailOf(p[1])
             IN
             /\ Len(updates) <= 2
             /\ Len(updates) >= 1
                => /\ updates[1].account_number = detail.fromAccount
                   /\ updates[1].inc = 0 - detail.amount
             /\ Len(updates) = 2
                => /\ updates[1].outcome = "ok"
                   /\ updates[1].modified_count = 1
                   /\ updates[2].account_number = detail.toAccount
                   /\ updates[2].inc = detail.amount
             /\ (Len(updates) >= 1 /\ updates[1].outcome = "ok"
                 /\ updates[1].modified_count = 0)
                => /\ u.pc = "done"
                   /\ u.response = UpdateFailed
                   /\ Len(updates) = 1
                   /\ updates[1].delta = 0

\* A transfer from an absent account to the second account has been
\* refused: one update, no document changed, the balances as they were.
C11_Witness ==
    \E p \in Updates :
        LET u == upd[p[1]][p[2]] IN
        /\ bus[p[1]].Source = TransactionSOURCE
        /\ DetailOf(p[1]).fromAccount = "IBAN9"
        /\ DetailOf(p[1]).toAccount = "IBAN2"
        /\ u.pc = "done" /\ ~UpdateRaised(u)
        /\ u.response = UpdateFailed
        /\ Len(UpdateCalls(u)) = 1
        /\ accounts = InitialAccounts

\* C12: when the sender's update changed a document and the receiver's
\* changes none, the invocation has returned 500 after exactly these two
\* updates: the sender's balance went down by the amount, nothing went up,
\* and no third update gives the amount back.
C12_DebitWithoutCredit ==
    /\ BalancesExplained
    /\ \A p \in Updates :
          LET u == upd[p[1]][p[2]]
              updates == UpdateCalls(u)
          IN
          (/\ bus[p[1]].Source = TransactionSOURCE
           /\ Len(updates) >= 2
           /\ updates[2].outcome = "ok"
           /\ updates[2].modified_count = 0)
          => /\ u.pc = "done"
             /\ u.response = UpdateFailed
             /\ Len(updates) = 2
             /\ updates[1].delta = 0 - DetailOf(p[1]).amount
             /\ updates[2].delta = 0

\* The transfer of 100.50 from the first account to an absent one has been
\* processed alone: the first account is at 0.00, the second as it was.
C12_Witness ==
    \E p \in Updates :
        LET u == upd[p[1]][p[2]] IN
        /\ Len(bus) = 1
        /\ bus[p[1]].Source = TransactionSOURCE
        /\ DetailOf(p[1]).fromAccount = "IBAN1"
        /\ DetailOf(p[1]).toAccount = "IBAN9"
        /\ DetailOf(p[1]).amount = 201
        /\ u.pc = "done" /\ u.response = UpdateFailed
        /\ BalanceOf(accounts, "IBAN1") = 0
        /\ BalanceOf(accounts, "IBAN2") = 100

\* C13: an invocation on a LoanGranted event whose store calls return has
\* made exactly one update, on the named account by +amount; it has returned
\* 200 when the update changed the document, which then went up by the
\* amount, and 500 when it changed none.  No balance changes but by the
\* updates made.
C13_LoanCreditsOneAccount ==
    /\ BalancesExplained
    /\ \A p \in Updates :
          LET u == upd[p[1]][p[2]]
              updates == UpdateCalls(u)
          IN
          (bus[p[1]].Source = LoanSOURCE /\ ~UpdateRaised(u))
          => /\ u.pc = "done"
             /\ Len(updates) = 1
             /\ updates[1].account_number = DetailOf(p[1]).accountNumber
             /\ updates[1].inc = DetailOf(p[1]).amount
             /\ IF updates[1].modified_count = 0
                THEN u.response = UpdateFailed /\ updates[1].delta = 0
                ELSE u.response = UpdateSucceeded
                     /\ updates[1].delta = DetailOf(p[1]).amount

\* A loan of 100.50 to the first account has been credited and a loan to an
\* absent account refused.
C13_Witness ==
    \E p, q \in Updates :
        /\ bus[p[1]].Source = LoanSOURCE /\ bus[q[1]].Source = LoanSOURCE
        /\ DetailOf(p[1]).accountNumber = "IBAN1" /\ DetailOf(p[1]).amount = 201
        /\ upd[p[1]][p[2]].response = UpdateSucceeded
        /\ DetailOf(q[1]).accountNumber = "IBAN9"
        /\ upd[q[1]][q[2]].pc = "done" /\ ~UpdateRaised(upd[q[1]][q[2]])
        /\ upd[q[1]][q[2]].response = UpdateFailed
        /\ BalanceOf(accounts, "IBAN1") = 402
        /\ BalanceOf(accounts, "IBAN2") = 100

\* C14: an invocation on an event of another source, once connected to the
\* store, has returned 200 and made no update.  No balance changes but by the
\* updates made.
C14_UnknownSourceIsNoOp ==
    /\ BalancesExplained
    /\ \A p \in Updates :
          LET u == upd[p[1]][p[2]] IN
          (bus[p[1]].Source \notin {TransactionSOURCE, LoanSOURCE} /\ ~UpdateRaised(u))
          => /\ u.pc = "done"
             /\ u.response = UpdateSucceeded
             /\ UpdateCalls(u) = <<>>

\* An event of an unknown source has been processed alone.
C14_Witness ==
    \E p \in Updates :
        /\ Len(bus) = 1
        /\ bus[p[1]].Source = "unknown.source"
        /\ upd[p[1]][p[2]].response = UpdateSucceeded
        /\ accounts = InitialAccounts

----------------------------------------------------------------------------
(* Concurrency and redelivery *)

\* The change an entry of the bus asks for the balance of account a.
EventDelta(e, a) ==
    LET detail == JsonLoads(e.Detail) IN
    IF e.Source = TransactionSOURCE
    THEN (IF detail.fromAccount = a THEN 0 - detail.amount ELSE 0)
         + (IF detail.toAccount = a THEN detail.amount ELSE 0)
    ELSE IF e.Source = LoanSOURCE
    THEN (IF detail.accountNumber = a THEN detail.amount ELSE 0)
    ELSE 0

RECURSIVE SumEventDeltas(_, _)
SumEventDeltas(ps, a) ==
    IF ps = {} THEN 0
    ELSE LET p == CHOOSE q \in ps : TRUE IN
         EventDelta(bus[p[1]], a) + SumEventDeltas(ps \ {p}, a)

\* Every invocation that has started has returned 200.
AllUpdatesSucceeded ==
    \A p \in Updates :
        upd[p[1]][p[2]].pc = "done" /\ upd[p[1]][p[2]].response = UpdateSucceeded

\* C15: whenever the Balance Updater invocations that have started have all
\* returned 200, in whatever order their updates were made, the balance of
\* each account is its initial balance plus the sum of the changes their
\* events ask for it.
C15_DeltasAccumulate ==
    AllUpdatesSucceeded
    => \A k \in 1..Len(accounts) :
          accounts[k].balance
            = InitialAccounts[k].balance
              + SumEventDeltas(Updates, accounts[k].account_number)

\* A transfer of 100.50 from the first account to the second and one of
\* 50.00 back have both been processed.
C15_Witness ==
    /\ Len(bus) = 2
    /\ Cardinality(Updates) = 2
    /\ AllUpdatesSucceeded
    /\ \E j, k \in 1..2 :
          /\ bus[j].Source = TransactionSOURCE /\ bus[k].Source = TransactionSOURCE
          /\ DetailOf(j).fromAccount = "IBAN1" /\ DetailOf(j).toAccount = "IBAN2"
          /\ DetailOf(j).amount = 201
          /\ DetailOf(k).fromAccount = "IBAN2" /\ DetailOf(k).toAccount = "IBAN1"
          /\ DetailOf(k).amount = 100
    /\ BalanceOf(accounts, "IBAN1") = 100
    /\ BalanceOf(accounts, "IBAN2") = 201

\* C16: a transfer is accepted on the balance it read, whatever the store
\* holds by then, and the Balance Updater takes its amount from the sender
\* whatever the balance is at that time: every invocation on the event of an
\* accepted transfer that returned without a store error has lowered the
\* sender's balance by the amount.  So two transfers that each read a
\* balance covering their own amount are both settled, and the balance goes
\* below zero.
C16_DebitIsUnconditional ==
    /\ BalancesExplained
    /\ \A i \in Procs :
          (Transfer(i) /\ Inserted(i))
          => /\ BalanceRead(i) >= Float(request[i].amount)
             /\ \A k \in EventsOf(i) : \A d \in Deliveries :
                   (upd[k][d].pc = "done" /\ ~UpdateRaised(upd[k][d]))
                   => /\ UpdateCalls(upd[k][d])[1].account_number
                           = The(SenderOf(i)).account_number
                      /\ UpdateCalls(upd[k][d])[1].delta = 0 - Float(request[i].amount)

\* Two transfers of 100.50 from the first account, which holds 100.50, have
\* both read 100.50 and both been settled: the account is at -100.50.
C16_Witness ==
    \E i, j \in Procs :
        /\ i # j
        /\ Transfer(i) /\ Transfer(j) /\ Published(i) /\ Published(j)
        /\ The(SenderOf(i)).account_number = "IBAN1"
        /\ The(SenderOf(j)).account_number = "IBAN1"
        /\ BalanceRead(i) = 201 /\ BalanceRead(j) = 201
        /\ Float(request[i].amount) = 201 /\ Float(request[j].amount) = 201
        /\ \A k \in EventsOf(i) \cup EventsOf(j) : \A d \in Deliveries :
              upd[k][d].pc = "done" /\ upd[k][d].response = UpdateSucceeded
        /\ BalanceOf(accounts, "IBAN1") = 0 - 201
        /\ BalanceOf(accounts, "IBAN1") < 0

\* C17: two invocations on equal events that have both returned without a
\* store error have made the same updates, and each update that found its
\* account has changed the balance by its full amount: the second invocation
\* applies what the first applied.
C17_RedeliveryAppliesTwice ==
    \A p, q \in Updates :
        LET u == upd[p[1]][p[2]]
            v == upd[q[1]][q[2]]
        IN
        (/\ p # q
         /\ bus[p[1]] = bus[q[1]]
         /\ u.pc = "done" /\ ~UpdateRaised(u)
         /\ v.pc = "done" /\ ~UpdateRaised(v))
        => /\ u.response = v.response
           /\ Len(UpdateCalls(u)) = Len(UpdateCalls(v))
           /\ \A n \in 1..Len(UpdateCalls(v)) :
                 /\ UpdateCalls(v)[n].account_number = UpdateCalls(u)[n].account_number
                 /\ UpdateCalls(v)[n].inc = UpdateCalls(u)[n].inc
                 /\ UpdateCalls(v)[n].modified_count = UpdateCalls(u)[n].modified_count
                 /\ UpdateCalls(v)[n].delta = UpdateCalls(u)[n].delta
                 /\ UpdateCalls(v)[n].modified_count = 1
                    => UpdateCalls(v)[n].delta = UpdateCalls(v)[n].inc

\* The same loan of 100.50 to the first account has been processed twice:
\* the account went from 100.50 to 301.50.
C17_Witness ==
    /\ Len(bus) = 2
    /\ bus[1] = bus[2]
    /\ bus[1].Source = LoanSOURCE
    /\ DetailOf(1).accountNumber = "IBAN1" /\ DetailOf(1).amount = 201
    /\ Cardinality(Updates) = 2
    /\ AllUpdatesSucceeded
    /\ BalanceOf(accounts, "IBAN1") = 201 + 2 * 201

----------------------------------------------------------------------------
(* The Balance Updater and the records of the producers *)

\* A step that moves a Balance Updater invocation leaves the transactions and
\* the loans as they are, and what it does to the invocation and to the
\* accounts is what the handler computes from the event, the accounts and
\* the outcome of the store call alone.
UpdaterStepIsOfEvent ==
    upd' # upd
    => /\ transactions' = transactions
       /\ loans' = loans
       /\ \E k \in 1..Len(bus), d \in Deliveries, c \in Outcomes, o \in Outcomes :
             /\ upd[k][d].pc \in {"idle", "update_receiver"}
             /\ LET after == IF upd[k][d].pc = "idle"
                             THEN UpdateBalanceHandler(BusDelivery(bus[k]), c, o)
                             ELSE UpdateReceiver(upd[k][d], o)
                IN /\ upd' = [upd EXCEPT ![k][d] = after.u]
                   /\ accounts' = after.accounts

\* An invocation on the event of producer invocation i that returned without
\* a store error has made the updates of the request of i, whatever the
\* status of the record of i.
UpdaterAppliesEvent ==
    \A p \in Updates :
        LET u == upd[p[1]][p[2]]
            i == origin[p[1]]
            updates == UpdateCalls(u)
        IN
        (i \in Procs /\ u.pc = "done" /\ ~UpdateRaised(u))
        => IF Transfer(i)
           THEN /\ Len(updates) = 2
                /\ updates[1].delta = 0 - Float(request[i].amount)
                /\ updates[2].delta = Float(request[i].amount)
           ELSE /\ Len(updates) = 1
                /\ updates[1].inc = Float(request[i].loan_amount)

\* C18: the Balance Updater never writes the transactions or the loans, each
\* of its steps is determined by its event and the accounts, and it applies
\* the changes of the event whether the record of the producer is completed,
\* approved, failed or pending.
C18_UpdaterSeesOnlyTheEvent == []UpdaterAppliesEvent /\ [][UpdaterStepIsOfEvent]_vars

\* The event of a transfer whose Transaction ended failed (the update to
\* completed raised) has been applied, and so has the event of a transfer
\* whose Transaction is still pending.
C18_Witness ==
    \E i, j \in Procs :
        /\ Transfer(i) /\ Published(i) /\ Tx(i).status = "failed"
        /\ Transfer(j) /\ Published(j) /\ Tx(j).status = "pending"
        /\ \A k \in EventsOf(i) \cup EventsOf(j) : \A d \in Deliveries :
              /\ upd[k][d].response = UpdateSucceeded
              /\ Len(UpdateCalls(upd[k][d])) = 2

----------------------------------------------------------------------------
(* The status of a Loan *)

\* C19: a Loan whose event the bus has not accepted is not stored as
\* approved.
C19_LoanInsertedPending ==
    \A i \in Procs :
        (Loan(i) /\ Inserted(i) /\ EventsOf(i) = {})
        => loans[locals[i].inserted_id].status # "approved"

\* C20: a Loan Originator invocation that has inserted its Loan and returned,
\* its store calls having returned, leaves the Loan approved with a success
\* result when the publish succeeded, and failed with the error text attached
\* and an error result carrying the text when the publish failed.
C20_LoanStatusFollowsPublish ==
    \A i \in Procs :
        (Loan(i) /\ Done(i) /\ Inserted(i) /\ ~StoreRaised(i))
        => /\ Published(i)
              => /\ loans[locals[i].inserted_id].status = "approved"
                 /\ response[i] = LoanSuccess(locals[i].inserted_id)
           /\ PublishFailed(i)
              => /\ loans[locals[i].inserted_id].status = "failed"
                 /\ loans[locals[i].inserted_id].error = EventBridgeErrorText
                 /\ response[i] = InternalError(EventBridgeErrorText)

----------------------------------------------------------------------------
(* Validation of a loan request *)

\* C21: a loan request whose amount is zero or negative has returned status
\* 400 with approved false and the invalid-amount message as soon as it has
\* started, also when the event carries no account; it has called neither
\* the store nor the bus, and no Loan of the store has such an amount.
C21_InvalidLoanAmountRejected ==
    /\ \A k \in 1..Len(loans) : loans[k].loan_amount > 0
    /\ \A i \in Procs :
          (Loan(i) /\ Float(request[i].loan_amount) <= 0)
          => /\ Done(i)
             /\ response[i] = ErrorResponse("Invalid loan amount", 400)
             /\ calls[i] = <<>>
             /\ locals[i].inserted_id = 0
             /\ EventsOf(i) = {}

\* A request of amount zero that carries no account has been refused for its
\* amount.
C21_Witness ==
    \E i \in Procs :
        /\ Loan(i) /\ Float(request[i].loan_amount) = 0
        /\ request[i].accountDetails = {}
        /\ response[i].statusCode = 400
        /\ response[i].body.approved = FALSE

C22_MaximumEnforced ==
    \E maximum \in {r.loan_amount : r \in LoanRequests} :
        /\ maximum > 0
        /\ \A i \in Procs :
              (Loan(i) /\ Float(request[i].loan_amount) >= maximum)
              => /\ EventsOf(i) = {}
                 /\ Done(i) => response[i].statusCode # 200

\* C24: a loan request of a positive amount that has every field of the
\* body, whose account_number names an account of the store, and whose store
\* and bus calls all returned, has inserted a Loan and published its event,
\* whether or not the event carries the resolved account.
C24_BothInputPaths ==
    \A i \in Procs :
        (/\ Loan(i) /\ Done(i)
         /\ Float(request[i].loan_amount) > 0
         /\ request[i].other_fields
         /\ Stored("account_number", request[i].account_number) # {}
         /\ \A n \in 1..Len(calls[i]) : calls[i][n].outcome = "ok")
        => /\ Inserted(i)
           /\ Published(i)

\* C28: every result of the Transfer Initiator and of the Loan Originator
\* carries an approved boolean and a message; approved is true only when
\* the record was inserted and its event published, and then the result
\* names the record.
C28_ResultShape ==
    \A i \in Procs :
        (Producer(i) /\ Done(i))
        => /\ "approved" \in DOMAIN response[i].body
           /\ "message" \in DOMAIN response[i].body
           /\ response[i].body.approved \in BOOLEAN
           /\ response[i].body.approved => (Inserted(i) /\ Published(i))

----------------------------------------------------------------------------
(* The two addressing modes of a transfer *)

\* The account numbers of the accounts a field value names.
NumbersOf(field, value) == {a.account_number : a \in Stored(field, value)}

\* Invocation i of send_money and invocation j of zelle ask for the same
\* transfer: the emails name the accounts the account numbers name, the
\* amount and the reason are the same.
SameTransfer(i, j) ==
    /\ handler[i] = "send_money" /\ handler[j] = "zelle"
    /\ NumbersOf("email", request[j].sender_email)
          = NumbersOf("account_number", request[i].sender_account_number)
    /\ NumbersOf("email", request[j].receiver_email)
          = NumbersOf("account_number", request[i].receiver_account_number)
    /\ request[i].amount = request[j].amount
    /\ request[i].reason = request[j].reason

\* No Balance Updater invocation has made an update on the account that
\* invocation i names as the sender: its balance is the one every lookup saw.
SenderBalanceConstant(i) ==
    \A p \in Updates :
        \A n \in 1..Len(upd[p[1]][p[2]].calls) :
            LET c == upd[p[1]][p[2]].calls[n] IN
            c.op = "update_one"
            => c.account_number
                  \notin NumbersOf("account_number", request[i].sender_account_number)

\* The two invocations met the same store and bus: as far as both made an
\* n-th call, the store or the bus answered both or failed both, and the
\* balance of the sender was the same at both lookups.
SameEnvironment(i, j) ==
    /\ \A n \in 1..Len(calls[i]) :
          n <= Len(calls[j]) => calls[i][n].outcome = calls[j][n].outcome
    /\ SenderBalanceConstant(i)

\* The result without the identifier of the record.
Outcome(i) ==
    [statusCode |-> response[i].statusCode,
     body |-> [f \in DOMAIN response[i].body \ {"transactionId"} |-> response[i].body[f]]]

\* C25: a send_money invocation and a zelle invocation that ask for the
\* same transfer and met the same store and bus have made the same calls,
\* have returned the same status and body (but for the identifier of the record), have inserted
\* Transactions of the same sender, receiver, amount, reason, status and
\* error, or none, and have published the same events, or none.
C25_AddressingModesAgree ==
    \A i, j \in Procs :
        (Done(i) /\ Done(j) /\ SameTransfer(i, j) /\ SameEnvironment(i, j))
        => /\ calls[i] = calls[j]
           /\ Outcome(i) = Outcome(j)
           /\ (locals[i].inserted_id = 0) = (locals[j].inserted_id = 0)
           /\ locals[i].inserted_id # 0 => Tx(i) = Tx(j)
           /\ {bus[k] : k \in EventsOf(i)} = {bus[k] : k \in EventsOf(j)}

\* Both modes have completed the same transfer between two accounts.
C25_Witness ==
    \E i, j \in Procs :
        /\ Done(i) /\ Done(j) /\ SameTransfer(i, j) /\ SameEnvironment(i, j)
        /\ NumbersOf("email", request[j].sender_email) # {}
        /\ NumbersOf("email", request[j].sender_email)
              # NumbersOf("email", request[j].receiver_email)
        /\ response[i].statusCode = 200
        /\ Tx(i).status = "completed" /\ Tx(j).status = "completed"
        /\ EventsOf(i) # {} /\ EventsOf(j) # {}

----------------------------------------------------------------------------
(* The envelope of the Event Codec *)

\* C26: the Balance Updater, given an entry of the bus as the encoder built
\* it, with the store answering, reaches the update_one call of the branch
\* of the entry's event kind.
C26_EnvelopeIsUpdaterInput ==
    \A k \in 1..Len(bus) :
        bus[k].Source \in {TransactionSOURCE, LoanSOURCE}
        => LET after == UpdateBalanceHandler(bus[k], "ok", "ok") IN
           /\ Len(UpdateCalls(after.u)) = 1
           /\ UpdateCalls(after.u)[1].account_number
                 = IF bus[k].Source = TransactionSOURCE
                   THEN DetailOf(k).fromAccount
                   ELSE DetailOf(k).accountNumber

\* C27: the two kinds have different sources, and an entry of the bus that
\* is the encoding of an event decodes to that event: same accounts, same
\* amount, same reason.
C27_CodecRoundTrips ==
    /\ TransactionSOURCE # LoanSOURCE
    /\ \A k \in 1..Len(bus) :
          /\ \A f \in AccountNumbers, t \in AccountNumbers, a \in Decimals :
                LET e == TransactionCompletedEvent(f, t, a, "test transaction") IN
                bus[k] = TransactionToEventbridge(e)
                => TransactionFromEventbridge(bus[k]) = e
          /\ \A n \in AccountNumbers, a \in Decimals :
                LET e == LoanGrantedEvent(n, a) IN
                bus[k] = LoanToEventbridge(e) => LoanFromEventbridge(bus[k]) = e

----------------------------------------------------------------------------
(* What the Balance Updater reports *)

\* The number of balance updates the event of bus entry k requires.
RequiredUpdates(k) == IF bus[k].Source = TransactionSOURCE THEN 2 ELSE 1

\* A call of Balance Updater invocation u raised, or an update of it changed
\* no document.
UpdateWentWrong(u) ==
    \E n \in 1..Len(u.calls) :
        \/ u.calls[n].outcome = "raise"
        \/ u.calls[n].op = "update_one" /\ u.calls[n].modified_count = 0

\* C29: a Balance Updater invocation on a TransactionCompleted or LoanGranted
\* event that has returned has returned 200 or 500; it has returned 200 only
\* when it made every update the event requires and each changed a
\* document; as soon as a call of it has raised or an update has changed no
\* document it has returned 500; when the connection to the store failed it
\* made no update.
C29_FailuresAreReported ==
    \A p \in Updates :
        LET u == upd[p[1]][p[2]] IN
        bus[p[1]].Source \in {TransactionSOURCE, LoanSOURCE}
        => /\ u.pc = "done" => u.response \in {UpdateSucceeded, UpdateFailed}
           /\ u.response = UpdateSucceeded
                 => /\ u.pc = "done"
                    /\ ~UpdateWentWrong(u)
                    /\ Len(UpdateCalls(u)) = RequiredUpdates(p[1])
           /\ UpdateWentWrong(u) => (u.pc = "done" /\ u.response = UpdateFailed)
           /\ u.calls[1].outcome = "raise" => Len(u.calls) = 1

\* One invocation could not connect and returned 500 with no update made;
\* another made an update that changed no document and returned 500.
C29_Witness ==
    \E p, q \in Updates :
        /\ bus[p[1]].Source \in {TransactionSOURCE, LoanSOURCE}
        /\ upd[p[1]][p[2]].calls = <<[op |-> "get_mongodb_client", outcome |-> "raise"]>>
        /\ upd[p[1]][p[2]].response = UpdateFailed
        /\ bus[q[1]].Source \in {TransactionSOURCE, LoanSOURCE}
        /\ \E n \in 1..Len(upd[q[1]][q[2]].calls) :
              /\ upd[q[1]][q[2]].calls[n].op = "update_one"
              /\ upd[q[1]][q[2]].calls[n].outcome = "ok"
              /\ upd[q[1]][q[2]].calls[n].modified_count = 0
        /\ upd[q[1]][q[2]].response = UpdateFailed

----------------------------------------------------------------------------
(* Who writes the accounts collection *)

\* The step is an update_one call of a Balance Updater invocation that
\* returned, and the accounts collection after it is the one before it with
\* the increment of that call added to the balance of the account it names.
IncrementByUpdater ==
    \E k \in Procs, d \in Deliveries :
        /\ upd'[k][d] # upd[k][d]
        /\ Len(upd'[k][d].calls) > Len(upd[k][d].calls)
        /\ LET c == upd'[k][d].calls[Len(upd'[k][d].calls)] IN
           /\ c.op = "update_one"
           /\ c.outcome = "ok"
           /\ \A n \in 1..Len(accounts) :
                 accounts'[n] =
                    [accounts[n] EXCEPT !.balance =
                        @ + IF accounts[n].account_number = c.account_number
                            THEN c.inc ELSE 0]

\* C30: no step removes or adds an account or changes its number; a step
\* that changes a balance is no step of send_money, zelle or process_loan
\* (their records, position and calls are as before) but an update_one of the
\* Balance Updater, and the new balance is the old one plus the increment of
\* that call.
C30_BalanceOnlyByIncrement ==
    [][/\ Len(accounts') = Len(accounts)
       /\ \A n \in 1..Len(accounts) :
             accounts'[n].account_number = accounts[n].account_number
       /\ accounts' # accounts
             => /\ UNCHANGED <<transactions, loans, bus, handler, pc, request,
                               locals, response, calls, origin>>
                /\ IncrementByUpdater]_vars

\* A transfer is completed and its event has been applied to both balances,
\* while a loan stored as approved whose publish failed has changed none.
C30_Witness ==
    \E i, j \in Procs :
        /\ Transfer(i) /\ Done(i) /\ locals[i].inserted_id # 0
        /\ Tx(i).status = "completed"
        /\ Tx(i).sender # Tx(i).receiver
        /\ \E k \in EventsOf(i) : upd[k][1].response = UpdateSucceeded
        /\ Loan(j) /\ Done(j) /\ locals[j].inserted_id # 0 /\ PublishFailed(j)
        /\ \A n \in 1..Len(accounts) :
              accounts[n].balance =
                 InitialAccounts[n].balance
                 + (IF accounts[n].account_number = Tx(i).receiver THEN Tx(i).amount ELSE 0)
                 - (IF accounts[n].account_number = Tx(i).sender THEN Tx(i).amount ELSE 0)

----------------------------------------------------------------------------
(* The status of a record and the fate of its event *)

\* C34: a Transaction with status completed has an event of its invocation
\* on the bus, and a Transaction with status failed has none, whatever the
\* store answered to the update that records the success.
C34_StatusAgreesWithEvent ==
    \A i \in Procs :
        (Transfer(i) /\ locals[i].inserted_id # 0)
        => /\ Tx(i).status = "completed" => EventsOf(i) # {}
           /\ Tx(i).status = "failed" => EventsOf(i) = {}

\* C35: a Loan stored with status approved has an event of its invocation on
\* the bus.
C35_ApprovedLoanHasEvent ==
    \A i \in Procs :
        (/\ Loan(i) /\ locals[i].inserted_id # 0
         /\ loans[locals[i].inserted_id].status = "approved")
        => EventsOf(i) # {}

\* The claim as worded: a send_money or zelle invocation that inserted a
\* Transaction and has returned has left it completed or failed, whatever the
\* bus and the store answered after the insert.
C36_AsWorded ==
    \A i \in Procs :
        (Transfer(i) /\ Done(i) /\ locals[i].inserted_id # 0)
        => Tx(i).status \in {"completed", "failed"}

\* C36: the last call of a send_money or zelle invocation that inserted a
\* Transaction and has returned is a status update; when that update
\* returned the Transaction is completed or failed, and when it raised the
\* Transaction is still pending and the invocation returned 500.
C36_TerminalWhenUpdateReturns ==
    \A i \in Procs :
        (Transfer(i) /\ Done(i) /\ locals[i].inserted_id # 0)
        => LET last == calls[i][Len(calls[i])] IN
           /\ last.op = "update_one"
           /\ last.outcome = "ok" => Tx(i).status \in {"completed", "failed"}
           /\ last.outcome = "raise"
                 => (Tx(i).status = "pending" /\ response[i].statusCode = 500)

\* The publish failed and so did the update that records the failure: the
\* invocation has returned and its Transaction is pending; another
\* invocation recorded its failed publish.
C36_Witness ==
    \E i, j \in Procs :
        /\ Transfer(i) /\ Done(i) /\ locals[i].inserted_id # 0
        /\ PublishFailed(i)
        /\ calls[i][Len(calls[i])] = [op |-> "update_one", outcome |-> "raise"]
        /\ Tx(i).status = "pending"
        /\ Transfer(j) /\ Done(j) /\ locals[j].inserted_id # 0
        /\ PublishFailed(j)
        /\ Tx(j).status = "failed"

----------------------------------------------------------------------------
(* Conservation of money *)

RECURSIVE TotalBalance(_)
TotalBalance(coll) ==
    IF coll = <<>> THEN 0 ELSE Head(coll).balance + TotalBalance(Tail(coll))

\* The sum of the amounts of the events of a set of Balance Updater
\* invocations.
RECURSIVE SumAmounts(_)
SumAmounts(ps) ==
    IF ps = {} THEN 0
    ELSE LET p == CHOOSE q \in ps : TRUE IN
         DetailOf(p[1]).amount + SumAmounts(ps \ {p})

\* The invocations that have applied a LoanGranted event, and those that are
\* between the debit and the credit of a TransactionCompleted event.
AppliedLoans ==
    {p \in Updates : /\ bus[p[1]].Source = LoanSOURCE
                     /\ upd[p[1]][p[2]].response = UpdateSucceeded}
MidwayTransfers ==
    {p \in Updates : /\ bus[p[1]].Source = TransactionSOURCE
                     /\ upd[p[1]][p[2]].pc = "update_receiver"}

\* C38: with every event produced by send_money, zelle or process_loan and
\* delivered once, the sum of the balances is the sum of the initial
\* balances plus the amounts of the applied LoanGranted events, less the
\* amounts of the TransactionCompleted events whose invocation is between
\* its debit and its credit: when no invocation is mid-way, nothing is
\* missing.
C38_TransfersConserveMoney ==
    TotalBalance(accounts)
       = TotalBalance(InitialAccounts) + SumAmounts(AppliedLoans)
         - SumAmounts(MidwayTransfers)

----------------------------------------------------------------------------
(* Progress of the Balance Updater *)

\* A step of the Balance Updater.
UpdaterStep ==
    \/ \E k \in Procs, d \in Deliveries, c \in Outcomes, o \in Outcomes :
          UpdateBalanceStart(k, d, c, o)
    \/ \E k \in Procs, d \in Deliveries, o \in Outcomes : UpdateBalanceReceiver(k, d, o)

\* The producers and the Balance Updater, where an invocation of the
\* Balance Updater that can take a step does take one.
SpecLive == Spec /\ WF_vars(UpdaterStep)

\* The accounts entry k of the bus names are in the store.
NamesStoredAccounts(k) ==
    IF bus[k].Source = TransactionSOURCE
    THEN /\ Stored("account_number", DetailOf(k).fromAccount) # {}
         /\ Stored("account_number", DetailOf(k).toAccount) # {}
    ELSE Stored("account_number", DetailOf(k).accountNumber) # {}

\* Update u changed the balance of account a by delta.
Changed(u, a, delta) ==
    \E n \in 1..Len(u.calls) :
        /\ u.calls[n].op = "update_one"
        /\ u.calls[n].account_number = a
        /\ u.calls[n].modified_count = 1
        /\ u.calls[n].inc = delta

\* Entry k of the bus has been applied by an invocation of the Balance
\* Updater: the sender debited and the receiver credited, or the account of
\* the loan credited.
Applied(k) ==
    \E d \in Deliveries :
        IF bus[k].Source = TransactionSOURCE
        THEN /\ Changed(upd[k][d], DetailOf(k).fromAccount, 0 - DetailOf(k).amount)
             /\ Changed(upd[k][d], DetailOf(k).toAccount, DetailOf(k).amount)
        ELSE Changed(upd[k][d], DetailOf(k).accountNumber, DetailOf(k).amount)

\* C37: every entry the bus has accepted from send_money, zelle or
\* process_loan for accounts of the store is eventually applied.
C37_EventsEventuallyApplied ==
    \A k \in Procs :
        [](k <= Len(bus) /\ NamesStoredAccounts(k) => <>(k <= Len(bus) /\ Applied(k)))

----------------------------------------------------------------------------
(* A transfer from an account to itself *)

\* Invocation i asks for a transfer from an account of the store to itself.
SelfTransfer(i) ==
    /\ handler[i] = "send_money"
    /\ request[i].sender_account_number = request[i].receiver_account_number
    /\ Stored("account_number", request[i].sender_account_number) # {}

\* C39: a send_money request from an account to itself, of a positive
\* amount the balance read covers, whose store and bus calls return, is
\* answered 200; and a Balance Updater invocation that has processed its
\* event with both updates made has left the balance as it found it: what
\* the debit took off, the credit put back.
C39_SelfTransferKeepsBalance ==
    \A i \in Procs :
        SelfTransfer(i)
        => /\ (/\ Done(i)
               /\ Float(request[i].amount) > 0
               /\ \A n \in 1..Len(calls[i]) : calls[i][n].outcome = "ok"
               /\ BalanceRead(i) >= Float(request[i].amount))
              => response[i].statusCode = 200
           /\ \A k \in EventsOf(i), d \in Deliveries :
                 upd[k][d].response = UpdateSucceeded
                 => LET updates == UpdateCalls(upd[k][d]) IN
                    /\ Len(updates) = 2
                    /\ updates[1].delta + updates[2].delta = 0

----------------------------------------------------------------------------
(* Account opening *)

\* C31: no two documents of the accounts collection have the same
\* account_number.
C31_AccountNumbersUnique ==
    \A k, n \in 1..Len(accounts) :
        accounts[k].account_number = accounts[n].account_number => k = n

\* The accounts create_account stored for the owner of an email.
OpenedFor(email) ==
    {accounts[k] : k \in {n \in 1..Len(accounts) :
                            "email_id" \in DOMAIN accounts[n] /\ accounts[n].email_id = email}}

\* C32: a zelle request of a positive amount that names the emails of two
\* accounts create_account stored, the sender's balance covering the amount,
\* and whose store calls returned, has not ended for want of an account: it
\* has inserted a Transaction between the two account numbers.
C32_ZelleFindsOpenedAccounts ==
    \A j \in Procs :
        (/\ handler[j] = "zelle" /\ Done(j)
         /\ Float(request[j].amount) > 0
         /\ \E a \in OpenedFor(request[j].sender_email) : a.balance >= Float(request[j].amount)
         /\ OpenedFor(request[j].receiver_email) # {}
         /\ \A n \in 1..Len(calls[j]) : calls[j][n].outcome = "ok")
        => /\ response[j].statusCode # 404
           /\ locals[j].inserted_id # 0
           /\ \E a \in OpenedFor(request[j].sender_email) : Tx(j).sender = a.account_number
           /\ \E b \in OpenedFor(request[j].receiver_email) : Tx(j).receiver = b.account_number

\* C33: the accounts collection has at most one account of an email_id and
\* account_type; a request for a pair the collection has at the count has
\* returned 'Account already exists', and every other request that has
\* returned 201 has inserted one account with balance 100.00 and currency USD.
C33_OneAccountPerPair ==
    /\ \A k, n \in 1..Len(accounts) :
          (/\ accounts[k].email_id = accounts[n].email_id
           /\ accounts[k].account_type = accounts[n].account_type) => k = n
    /\ \A i \in Procs :
          (handler[i] = "create_account" /\ Done(i))
          => /\ response[i] = AccountExists => CallsOf(i, "insert_one", "ok") = {}
             /\ response[i].statusCode = 201
                   => \E k \in 1..Len(accounts) :
                         /\ accounts[k] = AccountDocument(request[i],
                                                          response[i].body.account_number)
                         /\ accounts[k].balance = 200 /\ accounts[k].currency = "USD"

====
